---- MODULE Spec2Model ----
(***************************************************************************)
(* A model of glfos-samba-shares: the text editing of the NixOS           *)
(* configuration file (samba/share_config.rs, samba/remote_share_config.rs)*)
(* and the mount orchestration (samba/mount_operations.rs).                *)
(*                                                                         *)
(* Text is modelled character by character: a string is a sequence of     *)
(* one-character strings, so that trimming, substring search, brace       *)
(* counting and the regular expressions of the code are computed as the   *)
(* code computes them.                                                     *)
(***************************************************************************)
EXTENDS Integers, Sequences, FiniteSets, TLC

(***************************************************************************)
(* Bounds of the model                                                     *)
(***************************************************************************)
\* number of configuration edits in one behaviour
MaxOps == 1
\* number of mount_share / unmount_share calls in one behaviour
MaxCalls == 1

(***************************************************************************)
(* Strings: the operations of Rust's str that the code uses                *)
(***************************************************************************)
SetMin(S) == CHOOSE x \in S : \A y \in S : x <= y
SetMax(S) == CHOOSE x \in S : \A y \in S : y <= x

\* char::is_whitespace, over the characters of the model
IsWs(c) == c \in {" ", "\n", "\r", "\t"}

\* str::trim
Trim(s) ==
  LET idx == {i \in 1..Len(s) : ~IsWs(s[i])}
  IN IF idx = {} THEN <<>> ELSE SubSeq(s, SetMin(idx), SetMax(idx))

\* str::starts_with
StartsWith(s, p) == Len(p) <= Len(s) /\ SubSeq(s, 1, Len(p)) = p

\* the first index >= from at which p occurs in s, 0 when there is none
FindFrom(s, p, from) ==
  LET hits == {i \in from..(Len(s) - Len(p) + 1) : SubSeq(s, i, i + Len(p) - 1) = p}
  IN IF hits = {} THEN 0 ELSE SetMin(hits)

\* str::find
Find(s, p) == FindFrom(s, p, 1)

\* str::rfind of one character: the last index of c in s, 0 when there is none
RFindChar(s, c) ==
  LET hits == {i \in 1..Len(s) : s[i] = c}
  IN IF hits = {} THEN 0 ELSE SetMax(hits)

\* str::contains
Contains(s, p) == Find(s, p) # 0

\* str::matches(c).count()
CountChar(s, c) == Cardinality({i \in 1..Len(s) : s[i] = c})

\* str::replace(c, "")
RemoveChar(s, c) == SelectSeq(s, LAMBDA x : x # c)

\* str::split(c).nth(0), also splitn(2, c)'s first part: the text before the first c
BeforeFirst(s, c) ==
  LET n == Find(s, <<c>>) IN IF n = 0 THEN s ELSE SubSeq(s, 1, n - 1)

\* splitn(2, c)'s second part: the text after the first c
AfterFirst(s, c) ==
  LET n == Find(s, <<c>>) IN IF n = 0 THEN <<>> ELSE SubSeq(s, n + 1, Len(s))

\* str::split(c).nth(1): the text between the first c and the second (or the end)
SplitNth1(s, c) == BeforeFirst(AfterFirst(s, c), c)

\* str::trim_end_matches(c)
TrimEndMatches(s, c) ==
  LET idx == {i \in 1..Len(s) : s[i] # c}
  IN IF idx = {} THEN <<>> ELSE SubSeq(s, 1, SetMax(idx))

\* str::trim_matches(c)
TrimMatches(s, c) ==
  LET idx == {i \in 1..Len(s) : s[i] # c}
  IN IF idx = {} THEN <<>> ELSE SubSeq(s, SetMin(idx), SetMax(idx))

\* BufRead::lines: split at "\n"; a line that ended in "\n" also loses one "\r"
\* before it; a text ending in "\n" has no empty last line
RECURSIVE ReadLines(_)
ReadLines(t) ==
  IF t = <<>> THEN <<>>
  ELSE LET n == Find(t, <<"\n">>)
       IN IF n = 0 THEN <<t>>
          ELSE LET l == SubSeq(t, 1, n - 1)
                   line == IF l # <<>> /\ l[Len(l)] = "\r" THEN SubSeq(l, 1, Len(l) - 1) ELSE l
               IN <<line>> \o ReadLines(SubSeq(t, n + 1, Len(t)))

\* [String]::join(sep)
RECURSIVE Join(_, _)
Join(ls, sep) ==
  IF ls = <<>> THEN <<>>
  ELSE IF Len(ls) = 1 THEN ls[1]
  ELSE ls[1] \o sep \o Join(Tail(ls), sep)

\* Vec::insert(idx, x), idx counted from 1 here
InsertAt(ls, idx, x) == SubSeq(ls, 1, idx - 1) \o <<x>> \o SubSeq(ls, idx, Len(ls))

(***************************************************************************)
(* Literals of samba/share_config.rs                                       *)
(***************************************************************************)
NL == <<"\n">>
\* "services.samba"
KwServicesSamba == <<"s","e","r","v","i","c","e","s",".","s","a","m","b","a">>
\* "settings"
KwSettings == <<"s","e","t","t","i","n","g","s">>
\* "global"
KwGlobal == <<"g","l","o","b","a","l">>
\* "= {"
KwEqBrace == <<"="," ","{">>
\* "};"
KwClose == <<"}",";">>
\* "path", "browseable", "read only", "guest ok", "force user", "force group"
KeyPath == <<"p","a","t","h">>
KeyBrowseable == <<"b","r","o","w","s","e","a","b","l","e">>
KeyReadOnly == <<"r","e","a","d"," ","o","n","l","y">>
KeyGuestOk == <<"g","u","e","s","t"," ","o","k">>
KeyForceUser == <<"f","o","r","c","e"," ","u","s","e","r">>
KeyForceGroup == <<"f","o","r","c","e"," ","g","r","o","u","p">>
\* "yes", "no"
Yes == <<"y","e","s">>
No == <<"n","o">>

YesNo(b) == IF b THEN Yes ELSE No

\* an entry rendered without its properties
ShareConfigTextKeyOnly(r) ==
  <<" "," "," "," ","\"">> \o r.name \o <<"\""," ","="," ","{">> \o NL \o <<" "," "," "," ","}",";">>

\* the format! template of write and update:
\*     "{}" = {
\*       path = "{}";
\*       browseable = {};
\*       "read only" = {};
\*       "guest ok" = {};
\*       "force user" = "{}";
\*       "force group" = "{}";
\*     };
ShareConfigText(r) ==
  <<" "," "," "," ","\"">> \o r.name \o <<"\""," ","="," ","{">> \o NL
  \o <<" "," "," "," "," "," ","p","a","t","h"," ","="," ","\"">> \o r.path \o <<"\"",";">> \o NL
  \o <<" "," "," "," "," "," ","b","r","o","w","s","e","a","b","l","e"," ","="," ">>
     \o YesNo(r.browsable) \o <<";">> \o NL
  \o <<" "," "," "," "," "," ","\"","r","e","a","d"," ","o","n","l","y","\""," ","="," ">>
     \o YesNo(r.read_only) \o <<";">> \o NL
  \o <<" "," "," "," "," "," ","\"","g","u","e","s","t"," ","o","k","\""," ","="," ">>
     \o YesNo(r.guest_ok) \o <<";">> \o NL
  \o <<" "," "," "," "," "," ","\"","f","o","r","c","e"," ","u","s","e","r","\""," ","="," ","\"">>
     \o r.force_user \o <<"\"",";">> \o NL
  \o <<" "," "," "," "," "," ","\"","f","o","r","c","e"," ","g","r","o","u","p","\""," ","="," ","\"">>
     \o r.force_group \o <<"\"",";">> \o NL
  \o <<" "," "," "," ","}",";">>

(***************************************************************************)
(* SambaShareConfig::load_all                                              *)
(***************************************************************************)
\* HashMap::insert
MapInsert(m, k, v) == [x \in DOMAIN m \cup {k} |-> IF x = k THEN v ELSE m[x]]

\* HashMap::get(k).cloned().unwrap_or_default()
GetOrEmpty(m, k) == IF k \in DOMAIN m THEN m[k] ELSE <<>>

\* HashMap::get(k).map(|v| v == "yes").unwrap_or(d)
GetYes(m, k, d) == IF k \in DOMAIN m THEN m[k] = Yes ELSE d

\* the share built from the collected properties when a share block closes
ShareFromProps(name, props) ==
  [name |-> name,
   path |-> GetOrEmpty(props, KeyPath),
   browsable |-> GetYes(props, KeyBrowseable, TRUE),
   read_only |-> GetYes(props, KeyReadOnly, FALSE),
   guest_ok |-> GetYes(props, KeyGuestOk, FALSE),
   force_user |-> GetOrEmpty(props, KeyForceUser),
   force_group |-> GetOrEmpty(props, KeyForceGroup)]

\* the loop variables of load_all before the first line
LoadStart ==
  [in_samba_section |-> FALSE, in_settings_section |-> FALSE, in_share_block |-> FALSE,
   current_share_name |-> <<>>, current_share_props |-> <<>>,
   section_brace_count |-> 0, share_brace_count |-> 0, shares |-> <<>>, stop |-> FALSE]

\* one iteration of the loop of load_all
LoadLine(st, line) ==
  LET trimmed == Trim(line) IN
  IF Contains(trimmed, KwServicesSamba) /\ Contains(trimmed, <<"=">>) /\ Contains(trimmed, <<"{">>)
  THEN [st EXCEPT !.in_samba_section = TRUE]
  ELSE IF st.in_samba_section /\ ~st.in_settings_section
          /\ StartsWith(trimmed, KwSettings) /\ Contains(trimmed, <<"=">>)
  THEN [st EXCEPT !.in_settings_section = TRUE]
  ELSE IF ~st.in_settings_section THEN st
  ELSE IF ~st.in_share_block /\ Contains(trimmed, <<"=">>) /\ Contains(trimmed, <<"{">>)
  THEN [st EXCEPT !.current_share_name = Trim(BeforeFirst(RemoveChar(trimmed, "\""), "=")),
                  !.in_share_block = TRUE,
                  !.share_brace_count = CountChar(trimmed, "{")]
  ELSE IF st.in_share_block
  THEN LET props == IF Contains(trimmed, <<"=">>) /\ ~Contains(trimmed, KwEqBrace)
                    THEN MapInsert(st.current_share_props,
                                   TrimMatches(Trim(BeforeFirst(trimmed, "=")), "\""),
                                   TrimMatches(TrimEndMatches(Trim(AfterFirst(trimmed, "=")), ";"), "\""))
                    ELSE st.current_share_props
           count == st.share_brace_count - CountChar(trimmed, "}")
       IN IF count <= 0
          THEN [st EXCEPT !.in_share_block = FALSE,
                          !.share_brace_count = count,
                          !.shares = IF Trim(st.current_share_name) # KwGlobal
                                     THEN Append(@, ShareFromProps(st.current_share_name, props))
                                     ELSE @,
                          !.current_share_props = <<>>,
                          !.current_share_name = <<>>]
          ELSE [st EXCEPT !.current_share_props = props, !.share_brace_count = count]
  ELSE LET count == st.section_brace_count + CountChar(trimmed, "{") - CountChar(trimmed, "}")
       IN [st EXCEPT !.section_brace_count = count,
                     !.stop = count <= 0 /\ (trimmed = KwClose \/ trimmed = <<"}">>)]

RECURSIVE LoadLoop(_, _, _)
LoadLoop(st, lines, i) ==
  IF i > Len(lines) \/ st.stop THEN st
  ELSE LoadLoop(LoadLine(st, lines[i]), lines, i + 1)

\* SambaShareConfig::load_all on a configuration text: the shares, in order
LoadAll(text) == LoadLoop(LoadStart, ReadLines(text), 1).shares

\* the text of the samba_section template before the share entry
SambaSectionHead ==
  NL
  \*   services.samba = {
  \o <<" "," ","s","e","r","v","i","c","e","s",".","s","a","m","b","a"," ","="," ","{">> \o NL
  \*     enable = true;
  \o <<" "," "," "," ","e","n","a","b","l","e"," ","="," ","t","r","u","e",";">> \o NL
  \*     securityType = "user";
  \o <<" "," "," "," ","s","e","c","u","r","i","t","y","T","y","p","e"," ","="," ","\"","u","s","e","r","\"",";">> \o NL
  \*     openFirewall = true;
  \o <<" "," "," "," ","o","p","e","n","F","i","r","e","w","a","l","l"," ","="," ","t","r","u","e",";">> \o NL
  \*     settings = {
  \o <<" "," "," "," ","s","e","t","t","i","n","g","s"," ","="," ","{">> \o NL
  \*         global = {
  \o <<" "," "," "," "," "," "," "," ","g","l","o","b","a","l"," ","="," ","{">> \o NL
  \*           "workgroup" = "WORKGROUP";
  \o <<" "," "," "," "," "," "," "," "," "," ","\"","w","o","r","k","g","r","o","u","p","\""," ","="," ","\"","W","O","R","K","G","R","O","U","P","\"",";">> \o NL
  \*           "server string" = "smbnix";
  \o <<" "," "," "," "," "," "," "," "," "," ","\"","s","e","r","v","e","r"," ","s","t","r","i","n","g","\""," ","="," ","\"","s","m","b","n","i","x","\"",";">> \o NL
  \*           "netbios name" = "smbnix";
  \o <<" "," "," "," "," "," "," "," "," "," ","\"","n","e","t","b","i","o","s"," ","n","a","m","e","\""," ","="," ","\"","s","m","b","n","i","x","\"",";">> \o NL
  \*           "security" = "user";
  \o <<" "," "," "," "," "," "," "," "," "," ","\"","s","e","c","u","r","i","t","y","\""," ","="," ","\"","u","s","e","r","\"",";">> \o NL
  \*           #"use sendfile" = "yes";
  \o <<" "," "," "," "," "," "," "," "," "," ","#","\"","u","s","e"," ","s","e","n","d","f","i","l","e","\""," ","="," ","\"","y","e","s","\"",";">> \o NL
  \*           #"max protocol" = "smb2";
  \o <<" "," "," "," "," "," "," "," "," "," ","#","\"","m","a","x"," ","p","r","o","t","o","c","o","l","\""," ","="," ","\"","s","m","b","2","\"",";">> \o NL
  \*           # note: localhost is the ipv6 localhost ::1
  \o <<" "," "," "," "," "," "," "," "," "," ","#"," ","n","o","t","e",":"," ","l","o","c","a","l","h","o","s","t"," ","i","s"," ","t","h","e"," ","i","p","v","6"," ","l","o","c","a","l","h","o","s","t"," ",":",":","1">> \o NL
  \*           "hosts allow" = "192.168.0. 127.0.0.1 localhost";
  \o <<" "," "," "," "," "," "," "," "," "," ","\"","h","o","s","t","s"," ","a","l","l","o","w","\""," ","="," ","\"","1","9","2",".","1","6","8",".","0","."," ","1","2","7",".","0",".","0",".","1"," ","l","o","c","a","l","h","o","s","t","\"",";">> \o NL
  \*           "hosts deny" = "0.0.0.0/0";
  \o <<" "," "," "," "," "," "," "," "," "," ","\"","h","o","s","t","s"," ","d","e","n","y","\""," ","="," ","\"","0",".","0",".","0",".","0","/","0","\"",";">> \o NL
  \*           "guest account" = "nobody";
  \o <<" "," "," "," "," "," "," "," "," "," ","\"","g","u","e","s","t"," ","a","c","c","o","u","n","t","\""," ","="," ","\"","n","o","b","o","d","y","\"",";">> \o NL
  \*           "map to guest" = "bad user";
  \o <<" "," "," "," "," "," "," "," "," "," ","\"","m","a","p"," ","t","o"," ","g","u","e","s","t","\""," ","="," ","\"","b","a","d"," ","u","s","e","r","\"",";">> \o NL
  \*         };
  \o <<" "," "," "," "," "," "," "," ","}",";">> \o NL

\* the text of the samba_section template after the share entry
SambaSectionTail ==
  NL \o <<" "," "," "," ","}",";">> \o NL \o <<" "," ","}",";">>

(***************************************************************************)
(* SambaShareConfig::write                                                 *)
(***************************************************************************)
\* the loop variables of write's search for the end of the settings section
WriteStart ==
  [in_samba_section |-> FALSE, in_settings_section |-> FALSE, found_settings |-> FALSE,
   settings_brace_count |-> 0, insert_index |-> 0, stop |-> FALSE]

\* one iteration of that loop, on line i
WriteLine(st, line, i) ==
  LET trimmed == Trim(line) IN
  IF Contains(trimmed, KwServicesSamba) /\ Contains(trimmed, <<"=">>) /\ Contains(trimmed, <<"{">>)
  THEN [st EXCEPT !.in_samba_section = TRUE]
  ELSE IF ~st.in_samba_section THEN st
  ELSE IF StartsWith(trimmed, KwSettings) /\ Contains(trimmed, <<"=">>)
  THEN [st EXCEPT !.found_settings = TRUE, !.in_settings_section = TRUE,
                  !.settings_brace_count = CountChar(trimmed, "{")]
  ELSE IF ~st.in_settings_section THEN st
  ELSE LET count == st.settings_brace_count + CountChar(trimmed, "{") - CountChar(trimmed, "}")
       IN IF count = 0 /\ trimmed = KwClose
          THEN [st EXCEPT !.settings_brace_count = count, !.insert_index = i, !.stop = TRUE]
          ELSE [st EXCEPT !.settings_brace_count = count]

RECURSIVE WriteLoop(_, _, _)
WriteLoop(st, lines, i) ==
  IF i > Len(lines) \/ st.stop THEN st
  ELSE WriteLoop(WriteLine(st, lines[i], i), lines, i + 1)

\* the last line that is exactly "}" once trimmed, 0 when there is none
MainClosingBrace(lines) ==
  LET hits == {i \in 1..Len(lines) : Trim(lines[i]) = <<"}">>}
  IN IF hits = {} THEN 0 ELSE SetMax(hits)

\* the text write stores for share r, or the error it returns
WriteText(text, r) ==
  LET lines == ReadLines(text)
      st == WriteLoop(WriteStart, lines, 1)
      idx == MainClosingBrace(lines)
  IN IF ~st.found_settings
     THEN IF idx # 0
          THEN [ok |-> TRUE,
                text |-> Join(InsertAt(lines, idx,
                                       SambaSectionHead \o ShareConfigText(r) \o SambaSectionTail), NL)]
          ELSE [ok |-> FALSE, err |-> "Could not find suitable location to add services.samba section"]
     ELSE IF st.insert_index # 0
          THEN [ok |-> TRUE, text |-> Join(InsertAt(lines, st.insert_index, ShareConfigText(r)), NL)]
          ELSE [ok |-> FALSE, err |-> "Could not find end of services.samba.settings section"]

(***************************************************************************)
(* SambaShareConfig::update                                                *)
(***************************************************************************)
\* the loop variables of update's search for the old share
UpdateStart ==
  [in_samba_section |-> FALSE, in_settings_section |-> FALSE, in_target_share |-> FALSE,
   share_start_idx |-> 0, share_end_idx |-> 0, share_brace_count |-> 0, stop |-> FALSE]

\* one iteration of that loop, on line i
UpdateLine(st, line, i, old_name) ==
  LET trimmed == Trim(line) IN
  IF Contains(trimmed, KwServicesSamba) /\ Contains(trimmed, <<"=">>) /\ Contains(trimmed, <<"{">>)
  THEN [st EXCEPT !.in_samba_section = TRUE]
  ELSE IF st.in_samba_section /\ ~st.in_settings_section
          /\ StartsWith(trimmed, KwSettings) /\ Contains(trimmed, <<"=">>)
  THEN [st EXCEPT !.in_settings_section = TRUE]
  ELSE IF ~st.in_settings_section THEN st
  ELSE IF ~st.in_target_share /\ StartsWith(trimmed, <<"\"">>) /\ Contains(trimmed, KwEqBrace)
  THEN IF SplitNth1(trimmed, "\"") = old_name
       THEN [st EXCEPT !.in_target_share = TRUE, !.share_start_idx = i,
                       !.share_brace_count = CountChar(trimmed, "{")]
       ELSE st
  ELSE IF st.in_target_share
  THEN LET count == st.share_brace_count + CountChar(trimmed, "{") - CountChar(trimmed, "}")
       IN IF count <= 0
          THEN [st EXCEPT !.share_brace_count = count, !.share_end_idx = i, !.stop = TRUE]
          ELSE [st EXCEPT !.share_brace_count = count]
  ELSE st

RECURSIVE UpdateLoop(_, _, _, _)
UpdateLoop(st, lines, i, old_name) ==
  IF i > Len(lines) \/ st.stop THEN st
  ELSE UpdateLoop(UpdateLine(st, lines[i], i, old_name), lines, i + 1, old_name)

\* the text update stores for share r in place of the share old_name, or its error
UpdateText(text, old_name, r) ==
  LET lines == ReadLines(text)
      st == UpdateLoop(UpdateStart, lines, 1, old_name)
  IN IF st.share_start_idx # 0 /\ st.share_end_idx # 0
     THEN [ok |-> TRUE,
           text |-> Join(SubSeq(lines, 1, st.share_start_idx - 1) \o <<ShareConfigText(r)>>
                         \o SubSeq(lines, st.share_end_idx + 1, Len(lines)), NL)]
     ELSE [ok |-> FALSE, err |-> "Share not found in configuration"]


(***************************************************************************)
(* RemoteSambaShareConfig: write, update, delete                           *)
(***************************************************************************)
\* the options list write and update build, each option quoted
RemoteOptions(r) ==
  (IF r.option_credentials # <<>>
   THEN << <<"\"","c","r","e","d","e","n","t","i","a","l","s","=">> \o r.option_credentials \o <<"\"">> >>
   ELSE <<>>)
  \o << <<"\"","x","-","s","y","s","t","e","m","d",".","a","u","t","o","m","o","u","n","t","\"">>,
        <<"\"","n","o","a","u","t","o","\"">>,
        <<"\"","x","-","s","y","s","t","e","m","d",".","i","d","l","e","-","t","i","m","e","o","u","t","=","3","0","0","\"">>,
        <<"\"","x","-","s","y","s","t","e","m","d",".","d","e","v","i","c","e","-","t","i","m","e","o","u","t","=","1","0","s","\"">>,
        <<"\"","x","-","s","y","s","t","e","m","d",".","m","o","u","n","t","-","t","i","m","e","o","u","t","=","1","0","s","\"">> >>
  \o (IF r.force_user # <<>>
      THEN << <<"\"","u","i","d","=">> \o r.force_user \o <<"\"">> >>
      ELSE <<>>)
  \o (IF r.force_group # <<>>
      THEN << <<"\"","g","i","d","=">> \o r.force_group \o <<"\"">> >>
      ELSE <<>>)

\* the replacement text of update:
\* fileSystems."{}" = {
\*   device = "{}";
\*   fsType = "{}";
\*   options = [
\*     {}
\*   ];
\* };
ReplacementText(r) ==
  <<"f","i","l","e","S","y","s","t","e","m","s",".","\"">> \o r.name \o <<"\""," ","="," ","{">> \o NL
  \o <<" "," ","d","e","v","i","c","e"," ","="," ","\"">> \o r.remote_path \o <<"\"",";">> \o NL
  \o <<" "," ","f","s","T","y","p","e"," ","="," ","\"">> \o r.fs_type \o <<"\"",";">> \o NL
  \o <<" "," ","o","p","t","i","o","n","s"," ","="," ","[">> \o NL
  \o <<" "," "," "," ">> \o Join(RemoteOptions(r), NL \o <<" "," "," "," ">>) \o NL
  \o <<" "," ","]",";">> \o NL
  \o <<"}",";">>

\* the new entry of write: the same text followed by an empty line
NewEntryText(r) == ReplacementText(r) \o NL \o NL

\* the text write stores for remote share r: the entry spliced in before the last "}"
RemoteWriteText(text, r) ==
  LET last_brace_pos == RFindChar(text, "}")
  IN IF last_brace_pos # 0
     THEN [ok |-> TRUE,
           text |-> SubSeq(text, 1, last_brace_pos - 1) \o NewEntryText(r)
                    \o SubSeq(text, last_brace_pos, Len(text))]
     ELSE [ok |-> FALSE, err |-> "Could not find insertion point in config file"]

\* the first index >= i of s that holds no white space (Len(s) + 1 when there is none)
SkipWs(s, i) ==
  LET rest == {j \in i..Len(s) : ~IsWs(s[j])}
  IN IF rest = {} THEN Len(s) + 1 ELSE SetMin(rest)

\* the end of a match of  (?s)fileSystems\."name"\s*=\s*\{.*?\};  starting at i, 0 when
\* there is none: the key, "=", "{" with white space between, then as little as
\* possible up to a "};"
MatchEndAt(s, name, i) ==
  LET key == <<"f","i","l","e","S","y","s","t","e","m","s",".","\"">> \o name \o <<"\"">>
      eq == SkipWs(s, i + Len(key))
      brace == SkipWs(s, eq + 1)
      close == FindFrom(s, KwClose, brace + 1)
  IN IF /\ i + Len(key) - 1 <= Len(s)
        /\ SubSeq(s, i, i + Len(key) - 1) = key
        /\ eq <= Len(s) /\ s[eq] = "="
        /\ brace <= Len(s) /\ s[brace] = "{"
        /\ close # 0
     THEN close + 1
     ELSE 0

\* Regex::find: the leftmost match, as [start, end], start = 0 when there is none
EntryMatch(s, name) ==
  LET starts == {i \in 1..Len(s) : MatchEndAt(s, name, i) # 0}
  IN IF starts = {} THEN [start |-> 0, end |-> 0]
     ELSE [start |-> SetMin(starts), end |-> MatchEndAt(s, name, SetMin(starts))]

\* the end of the greedy [\n\r]* that delete's pattern adds after the match
SkipNewlines(s, e) ==
  LET rest == {j \in (e + 1)..Len(s) : s[j] \notin {"\n", "\r"}}
  IN IF rest = {} THEN Len(s) ELSE SetMin(rest) - 1

\* the text update stores when the name is unchanged (the first match replaced)
RemoteReplaceText(text, old_name, r) ==
  LET m == EntryMatch(text, old_name)
  IN IF m.start = 0
     THEN [ok |-> FALSE, err |-> "Could not find filesystem entry"]
     ELSE [ok |-> TRUE,
           text |-> SubSeq(text, 1, m.start - 1) \o ReplacementText(r)
                    \o SubSeq(text, m.end + 1, Len(text))]

\* the text delete stores (the first match and the newlines after it removed)
RemoteDeleteText(text, name) ==
  LET m == EntryMatch(text, name)
  IN IF m.start = 0
     THEN [ok |-> FALSE, err |-> "Could not find filesystem entry"]
     ELSE [ok |-> TRUE,
           text |-> SubSeq(text, 1, m.start - 1)
                    \o SubSeq(text, SkipNewlines(text, m.end) + 1, Len(text))]


(***************************************************************************)
(* samba/mount_operations.rs: validation, paths, error texts               *)
(***************************************************************************)
\* the characters both validations reject: ; & | and the backquote (written
\* "backquote" here, one character of the model like the others)
ShellMeta == {";", "&", "|", "backquote"}

HasShellMeta(s) == \E i \in 1..Len(s) : s[i] \in ShellMeta

\* validate_remote_url: the error it returns, "" when the url is accepted
ValidateRemoteUrl(url) ==
  IF ~StartsWith(url, <<"/","/">>)
  THEN "Remote URL must start with '//' (e.g., //server/share)"
  ELSE IF CountChar(url, "/") < 3
  THEN "Remote URL must include server and share name (e.g., //server/share)"
  ELSE IF HasShellMeta(url)
  THEN "Remote URL contains invalid characters"
  ELSE ""

\* Path::is_absolute on Unix
IsAbsolute(p) == StartsWith(p, <<"/">>)

\* validate_mount_point: the error it returns, "" when the path is accepted
ValidateMountPoint(p) ==
  IF ~IsAbsolute(p)
  THEN "Mount point must be an absolute path"
  ELSE IF HasShellMeta(p)
  THEN "Mount point path contains invalid characters"
  ELSE ""

\* str::split(c): the segments of s between occurrences of c
RECURSIVE SplitChar(_, _)
SplitChar(s, c) ==
  LET n == Find(s, <<c>>)
  IN IF n = 0 THEN <<s>>
     ELSE <<SubSeq(s, 1, n - 1)>> \o SplitChar(SubSeq(s, n + 1, Len(s)), c)

\* Path::components on Unix: the root, then the non-empty segments; a "." segment
\* is dropped unless it starts a relative path
Components(p) ==
  LET segs == SplitChar(p, "/")
      keep == {i \in 1..Len(segs) :
                 /\ segs[i] # <<>>
                 /\ (segs[i] = <<".">> => (i = 1 /\ ~IsAbsolute(p)))}
      Pick[i \in 0..Len(segs)] ==
        IF i = 0 THEN <<>>
        ELSE IF i \in keep THEN Append(Pick[i - 1], segs[i]) ELSE Pick[i - 1]
  IN [root |-> IsAbsolute(p), parts |-> Pick[Len(segs)]]

\* Path == Path: equality of the components
PathEq(a, b) == Components(a) = Components(b)

\* char::to_lowercase over the letters of the model
LowerChar(c) ==
  CASE c = "A" -> "a" [] c = "B" -> "b" [] c = "C" -> "c" [] c = "D" -> "d" [] c = "E" -> "e"
    [] c = "F" -> "f" [] c = "G" -> "g" [] c = "H" -> "h" [] c = "I" -> "i" [] c = "J" -> "j"
    [] c = "K" -> "k" [] c = "L" -> "l" [] c = "M" -> "m" [] c = "N" -> "n" [] c = "O" -> "o"
    [] c = "P" -> "p" [] c = "Q" -> "q" [] c = "R" -> "r" [] c = "S" -> "s" [] c = "T" -> "t"
    [] c = "U" -> "u" [] c = "V" -> "v" [] c = "W" -> "w" [] c = "X" -> "x" [] c = "Y" -> "y"
    [] c = "Z" -> "z" [] OTHER -> c

\* str::to_lowercase
ToLowercase(s) == [i \in 1..Len(s) |-> LowerChar(s[i])]

\* parse_mount_error looking for "busy" before "permission denied"
ParseMountErrorBusyFirst(stderr) ==
  LET lower == ToLowercase(stderr) IN
  IF Contains(lower, <<"a","l","r","e","a","d","y"," ","m","o","u","n","t","e","d">>)
     \/ Contains(lower, <<"b","u","s","y">>)
  THEN <<"Mount point is already in use or mounted.">>
  ELSE IF Contains(lower, <<"p","e","r","m","i","s","s","i","o","n"," ","d","e","n","i","e","d">>)
          \/ Contains(lower, <<"a","c","c","e","s","s"," ","d","e","n","i","e","d">>)
  THEN <<"Permission denied. Check your credentials or run with sudo.">>
  ELSE <<"Mount failed: ", Trim(stderr)>>

\* parse_mount_error
ParseMountError(stderr) ==
  LET lower == ToLowercase(stderr) IN
  IF Contains(lower, <<"p","e","r","m","i","s","s","i","o","n"," ","d","e","n","i","e","d">>)
     \/ Contains(lower, <<"a","c","c","e","s","s"," ","d","e","n","i","e","d">>)
  THEN <<"Permission denied. Check your credentials or run with sudo.">>
  ELSE IF Contains(lower, <<"c","o","n","n","e","c","t","i","o","n"," ","r","e","f","u","s","e","d">>)
          \/ Contains(lower, <<"c","o","u","l","d"," ","n","o","t"," ","r","e","s","o","l","v","e">>)
  THEN <<"Connection refused. Server may be offline or unreachable.">>
  ELSE IF Contains(lower, <<"a","l","r","e","a","d","y"," ","m","o","u","n","t","e","d">>)
          \/ Contains(lower, <<"b","u","s","y">>)
  THEN <<"Mount point is already in use or mounted.">>
  ELSE IF Contains(lower, <<"n","o"," ","s","u","c","h"," ","f","i","l","e"," ","o","r"," ",
                            "d","i","r","e","c","t","o","r","y">>)
  THEN <<"Server or share not found. Check the remote URL.">>
  ELSE IF Contains(lower, <<"i","n","v","a","l","i","d"," ","a","r","g","u","m","e","n","t">>)
  THEN <<"Invalid mount options. Check your configuration.">>
  ELSE IF Contains(lower, <<"h","o","s","t"," ","i","s"," ","d","o","w","n">>)
  THEN <<"Host is unreachable. Check network connectivity.">>
  ELSE <<"Mount failed: ", Trim(stderr)>>

\* parse_umount_error
ParseUmountError(stderr) ==
  LET lower == ToLowercase(stderr) IN
  IF Contains(lower, <<"n","o","t"," ","m","o","u","n","t","e","d">>)
  THEN <<"The specified path is not currently mounted.">>
  ELSE IF Contains(lower, <<"b","u","s","y">>)
          \/ Contains(lower, <<"t","a","r","g","e","t"," ","i","s"," ","b","u","s","y">>)
  THEN <<"Mount point is busy. Close any programs using files from this share.">>
  ELSE IF Contains(lower, <<"p","e","r","m","i","s","s","i","o","n"," ","d","e","n","i","e","d">>)
  THEN <<"Permission denied. You may need to run with sudo.">>
  ELSE <<"Unmount failed: ", Trim(stderr)>>

(***************************************************************************)
(* samba/mount_operations.rs: the mount state reader                       *)
(***************************************************************************)
\* "cifs"
Cifs == <<"c","i","f","s">>

\* a row of the operating system's mount table as a MountedShare
AsMounted(row) ==
  [source |-> row.source, target |-> row.target, fstype |-> row.fstype,
   options |-> row.options, is_mounted |-> TRUE]

\* str::split_whitespace: the maximal runs of characters that are not whitespace
RECURSIVE SplitWhitespace(_)
SplitWhitespace(s) ==
  LET starts == {i \in 1..Len(s) : ~IsWs(s[i])}
  IN IF starts = {} THEN <<>>
     ELSE LET from == SetMin(starts)
              stops == {i \in from..Len(s) : IsWs(s[i])}
              to == IF stops = {} THEN Len(s) + 1 ELSE SetMin(stops)
          IN <<SubSeq(s, from, to - 1)>> \o SplitWhitespace(SubSeq(s, to, Len(s)))

\* the rows of /proc/mounts with the lines split at single blanks
ProcMountsRowsSplitSpace(text) ==
  LET lines == ReadLines(text)
      parts == [i \in 1..Len(lines) |-> SplitChar(lines[i], " ")]
      rows == SelectSeq(parts, LAMBDA p : Len(p) >= 4)
  IN [i \in 1..Len(rows) |->
        [source |-> rows[i][1], target |-> rows[i][2], fstype |-> rows[i][3], options |-> rows[i][4]]]

\* list_cifs_mounts_proc on the text of /proc/mounts: the lines of at least four
\* fields as rows of the mount table, the first four fields of each
ProcMountsRows(text) ==
  LET lines == ReadLines(text)
      parts == [i \in 1..Len(lines) |-> SplitWhitespace(lines[i])]
      rows == SelectSeq(parts, LAMBDA p : Len(p) >= 4)
  IN [i \in 1..Len(rows) |->
        [source |-> rows[i][1], target |-> rows[i][2], fstype |-> rows[i][3], options |-> rows[i][4]]]

\* list_cifs_mounts_findmnt when findmnt -t cifs runs and its JSON parses: the
\* cifs rows of the table
ListCifsMountsFindmnt(table) ==
  LET rows == SelectSeq(table, LAMBDA row : row.fstype = Cifs)
  IN [i \in 1..Len(rows) |-> AsMounted(rows[i])]

\* list_cifs_mounts_proc when /proc/mounts is read: the rows whose third field is cifs
ListCifsMountsProc(table) ==
  LET rows == SelectSeq(table, LAMBDA row : row.fstype = Cifs)
  IN [i \in 1..Len(rows) |-> AsMounted(rows[i])]

\* list_cifs_mounts: findmnt first, /proc/mounts when it fails; findmnt and proc
\* say whether each query succeeds
ListCifsMounts(table, findmnt, proc) ==
  IF findmnt = "ok" THEN [ok |-> TRUE, shares |-> ListCifsMountsFindmnt(table)]
  ELSE IF proc = "ok" THEN [ok |-> TRUE, shares |-> ListCifsMountsProc(table)]
  ELSE [ok |-> FALSE, shares |-> <<>>]

\* is_mounted, on the answer of list_cifs_mounts
IsMounted(listing, mount_point) ==
  IF listing.ok
  THEN \E i \in 1..Len(listing.shares) : PathEq(listing.shares[i].target, mount_point)
  ELSE FALSE

\* the options text list_all_shares builds for a share that is not mounted
ConfigOptions(config) ==
  Join(<< <<"c","r","e","d","e","n","t","i","a","l","s","=">> \o config.option_credentials,
          <<"u","i","d","=">> \o config.force_user,
          <<"g","i","d","=">> \o config.force_group >>, <<",">>)

\* the HashMap of mounted shares by target: the last share of each target
MountedMap(mounted) ==
  [t \in {mounted[i].target : i \in 1..Len(mounted)} |->
     mounted[SetMax({i \in 1..Len(mounted) : mounted[i].target = t})]]

\* the first loop of list_all_shares: one entry for each configured share
ConfiguredEntries(configured, mounted) ==
  LET mounted_map == MountedMap(mounted)
  IN [i \in 1..Len(configured) |->
        [source |-> configured[i].remote_path,
         target |-> configured[i].name,
         fstype |-> configured[i].fs_type,
         options |-> IF configured[i].name \in DOMAIN mounted_map
                     THEN mounted_map[configured[i].name].options
                     ELSE ConfigOptions(configured[i]),
         is_mounted |-> configured[i].name \in DOMAIN mounted_map]]

\* the second loop of list_all_shares: the mounted shares whose target is not yet
\* in the result are appended
RECURSIVE AddUnconfigured(_, _, _)
AddUnconfigured(result, mounted, i) ==
  IF i > Len(mounted) THEN result
  ELSE IF ~\E k \in 1..Len(result) : result[k].target = mounted[i].target
  THEN AddUnconfigured(Append(result, mounted[i]), mounted, i + 1)
  ELSE AddUnconfigured(result, mounted, i + 1)

\* list_all_shares appending every mounted share
ListAllSharesAppendAll(configured, mounted) ==
  ConfiguredEntries(configured, mounted) \o mounted

\* list_all_shares, on the configured shares and the mounted shares it has read
ListAllShares(configured, mounted) ==
  AddUnconfigured(ConfiguredEntries(configured, mounted), mounted, 1)


(***************************************************************************)
(* The state                                                               *)
(***************************************************************************)
VARIABLES
  \* the configuration file /etc/nixos/customConfig/default.nix
  content,
  \* the last finished configuration edit: what was called, with what, on which
  \* text, and whether it returned Ok
  last,
  \* the number of configuration edits made
  nops,
  \* the record a remote rename still has to insert (<<>> when there is none)
  pend,
  \* where the running mount_share, unmount_share or write_with_sudo call stands
  mpc,
  \* the arguments of that call
  call,
  \* the mount table of the operating system: rows of source, target, fstype, options
  mounts,
  \* the directories that exist, each as the components of its path
  dirs,
  \* the files under /tmp: path |-> permission bits and content
  files,
  \* what the call has asked of the operating system so far, in order
  effects,
  \* what the call returned
  result,
  \* what list_cifs_mounts answered to the call
  listing,
  \* how the mount or umount command of the call ended, and its standard error
  output,
  \* the path of the credentials file the call wrote (<<>> before that)
  creds_path,
  \* the number of calls made
  ncalls,
  \* the configured shares and the mounted shares given to list_all_shares
  list_in,
  \* what list_all_shares returned for them
  list_out,
  \* the function called on its own and its argument
  fn_in,
  \* what that function returned
  fn_out,
  \* the threads of the process inside mount_share: for each where it stands, the
  \* path of its credentials file and what its mount command read there
  threads,
  \* the seconds since the epoch the system clock shows
  clock

cfgVars == <<content, last, nops, pend>>

mntVars == <<mpc, call, mounts, dirs, files, effects, result, listing, output, creds_path, ncalls>>

listVars == <<list_in, list_out, fn_in, fn_out, threads, clock>>

vars == <<cfgVars, mntVars, listVars>>

NoCall == [fn |-> "none"]

NoResult == [ok |-> FALSE, err |-> <<"not returned">>]

NoListing == [ok |-> FALSE, shares |-> <<>>]

\* no command has run
NoOutput == [status |-> "none", stderr |-> <<>>]

\* no mount or unmount call is part of the behaviour
MntIdle ==
  /\ mpc = "idle" /\ call = NoCall /\ mounts = <<>> /\ dirs = {} /\ files = <<>>
  /\ effects = <<>> /\ result = NoResult /\ listing = NoListing /\ output = NoOutput
  /\ creds_path = <<>> /\ ncalls = 0

\* no listing is part of the behaviour, and no function is called on its own
ListIdle ==
  /\ list_in = <<>> /\ list_out = <<>> /\ fn_in = <<>> /\ fn_out = <<>>
  /\ threads = <<>> /\ clock = 0

NoRecord == [name |-> <<>>]

NoEdit == [op |-> "none", ok |-> FALSE, rec |-> NoRecord, old |-> <<>>, before |-> <<>>, err |-> ""]

\* no configuration edit is part of the behaviour
CfgIdle == content = <<>> /\ last = NoEdit /\ nops = 0 /\ pend = <<>>

CRLF == <<"\r", "\n">>

(***************************************************************************)
(* Local shares: the configurations and records the model starts from      *)
(***************************************************************************)
\* two shares, each over several lines
LinesMulti ==
  <<
    \* {
    <<"{">>,
    \*   services.samba = {
    <<" "," ","s","e","r","v","i","c","e","s",".","s","a","m","b","a"," ","="," ","{">>,
    \*     settings = {
    <<" "," "," "," ","s","e","t","t","i","n","g","s"," ","="," ","{">>,
    \*       "a" = {
    <<" "," "," "," "," "," ","\"","a","\""," ","="," ","{">>,
    \*         path = "/p";
    <<" "," "," "," "," "," "," "," ","p","a","t","h"," ","="," ","\"","/","p","\"",";">>,
    \*         browseable = no;
    <<" "," "," "," "," "," "," "," ","b","r","o","w","s","e","a","b","l","e"," ","="," ","n","o",";">>,
    \*       };
    <<" "," "," "," "," "," ","}",";">>,
    \*       "b" = {
    <<" "," "," "," "," "," ","\"","b","\""," ","="," ","{">>,
    \*         path = "/q";
    <<" "," "," "," "," "," "," "," ","p","a","t","h"," ","="," ","\"","/","q","\"",";">>,
    \*       };
    <<" "," "," "," "," "," ","}",";">>,
    \*     };
    <<" "," "," "," ","}",";">>,
    \*   };
    <<" "," ","}",";">>,
    \* }
    <<"}">>
  >>

\* three shares, each on one line
LinesSingle ==
  <<
    \* {
    <<"{">>,
    \*   services.samba = {
    <<" "," ","s","e","r","v","i","c","e","s",".","s","a","m","b","a"," ","="," ","{">>,
    \*     settings = {
    <<" "," "," "," ","s","e","t","t","i","n","g","s"," ","="," ","{">>,
    \*       "a" = { path = "/p"; };
    <<" "," "," "," "," "," ","\"","a","\""," ","="," ","{"," ","p","a","t","h"," ","="," ","\"","/","p","\"",";"," ","}",";">>,
    \*       "b" = { path = "/q"; };
    <<" "," "," "," "," "," ","\"","b","\""," ","="," ","{"," ","p","a","t","h"," ","="," ","\"","/","q","\"",";"," ","}",";">>,
    \*       "c" = { path = "/r"; };
    <<" "," "," "," "," "," ","\"","c","\""," ","="," ","{"," ","p","a","t","h"," ","="," ","\"","/","r","\"",";"," ","}",";">>,
    \*     };
    <<" "," "," "," ","}",";">>,
    \*   };
    <<" "," ","}",";">>,
    \* }
    <<"}">>
  >>

\* an empty settings container
LinesEmpty ==
  <<
    \* {
    <<"{">>,
    \*   services.samba = {
    <<" "," ","s","e","r","v","i","c","e","s",".","s","a","m","b","a"," ","="," ","{">>,
    \*     enable = true;
    <<" "," "," "," ","e","n","a","b","l","e"," ","="," ","t","r","u","e",";">>,
    \*     settings = {
    <<" "," "," "," ","s","e","t","t","i","n","g","s"," ","="," ","{">>,
    \*     };
    <<" "," "," "," ","}",";">>,
    \*   };
    <<" "," ","}",";">>,
    \* }
    <<"}">>
  >>

\* no services.samba section
LinesNone ==
  <<
    \* {
    <<"{">>,
    \*   imports = [ ];
    <<" "," ","i","m","p","o","r","t","s"," ","="," ","["," ","]",";">>,
    \* }
    <<"}">>
  >>

\* a services.samba section without a settings container
LinesNoSettings ==
  <<
    \* {
    <<"{">>,
    \*   services.samba = {
    <<" "," ","s","e","r","v","i","c","e","s",".","s","a","m","b","a"," ","="," ","{">>,
    \*     enable = true;
    <<" "," "," "," ","e","n","a","b","l","e"," ","="," ","t","r","u","e",";">>,
    \*   };
    <<" "," ","}",";">>,
    \* }
    <<"}">>
  >>

\* a configuration on one line: no line is "}"
LinesOneLine ==
  <<
    \* { imports = [ ]; }
    <<"{"," ","i","m","p","o","r","t","s"," ","="," ","["," ","]",";"," ","}">>
  >>

\* the share "a", and a block with the key "z" that is no share: nested in the block
\* of "a", or in another section after services.samba
LinesStrayKey ==
  [nested |->
     SubSeq(LinesMulti, 1, 5)
     \o << \*         "z" = {
           <<" "," "," "," "," "," "," "," ","\"","z","\""," ","="," ","{">>,
           \*           k = "v";
           <<" "," "," "," "," "," "," "," "," "," ","k"," ","="," ","\"","v","\"",";">>,
           \*         };
           <<" "," "," "," "," "," "," "," ","}",";">> >>
     \o <<LinesMulti[7]>> \o SubSeq(LinesMulti, 11, 13),
   outside |->
     SubSeq(LinesMulti, 1, 7) \o SubSeq(LinesMulti, 11, 12)
     \o << \*   other = {
           <<" "," ","o","t","h","e","r"," ","="," ","{">>,
           \*     "z" = {
           <<" "," "," "," ","\"","z","\""," ","="," ","{">>,
           \*       k = "v";
           <<" "," "," "," "," "," ","k"," ","="," ","\"","v","\"",";">>,
           \*     };
           <<" "," "," "," ","}",";">>,
           \*   };
           <<" "," ","}",";">>,
           <<"}">> >>]

\* the two shares of LinesMulti with the key of the first written as an
\* identifier:       a = {
LinesUnquoted == [LinesMulti EXCEPT ![4] = <<" "," "," "," "," "," ","a"," ","="," ","{">>]

LocalLayouts ==
  {LinesMulti, LinesSingle, LinesEmpty, LinesNone, LinesNoSettings, LinesOneLine,
   LinesStrayKey.nested, LinesStrayKey.outside,
   LinesUnquoted}

\* each layout without and with a final newline, and one with CR LF line ends
LocalTexts ==
  {Join(l, NL) : l \in LocalLayouts} \cup {Join(l, NL) \o NL : l \in LocalLayouts}
  \cup {Join(LinesMulti, CRLF) \o CRLF}

LocalShare(name, path, browsable, read_only, guest_ok, force_user, force_group) ==
  [name |-> name, path |-> path, browsable |-> browsable, read_only |-> read_only,
   guest_ok |-> guest_ok, force_user |-> force_user, force_group |-> force_group]

\* the records written: plain ones, one with empty optional fields, one whose path
\* holds a brace, one named like the global block
LocalRecords ==
  {LocalShare(<<"a">>, <<"/","p">>, TRUE, FALSE, TRUE, <<"u">>, <<"g">>),
   LocalShare(<<"b">>, <<"/","q">>, FALSE, TRUE, FALSE, <<>>, <<>>),
   LocalShare(<<"d">>, <<"/","p","}">>, FALSE, FALSE, TRUE, <<"u">>, <<"g">>),
   LocalShare(<<"g","l","o","b","a","l">>, <<"/","g">>, TRUE, FALSE, FALSE, <<"u">>, <<>>)}

\* the names update is asked to replace
LocalOldNames == {<<"a">>, <<"b">>, <<"z">>}

\* how the file system answers: the file opens and is written, it cannot be
\* opened, or it cannot be written
IoOutcomes == {"ok", "open_fails", "write_fails"}


(***************************************************************************)
(* Local shares: the operations                                            *)
(***************************************************************************)
\* SambaShareConfig::write(&self): r is self
LocalWrite(r, io) ==
  /\ nops < MaxOps
  /\ pend = <<>>
  /\ LET res == WriteText(content, r)
         done == io = "ok" /\ res.ok
     IN /\ content' = IF done THEN res.text ELSE content
        /\ last' = [op |-> "write", ok |-> done, rec |-> r, old |-> <<>>, before |-> content,
                    err |-> IF io = "open_fails" THEN "Failed to open"
                            ELSE IF ~res.ok THEN res.err
                            ELSE IF io = "write_fails" THEN "Failed to write to"
                            ELSE ""]
  /\ nops' = nops + 1
  /\ UNCHANGED <<pend, mntVars, listVars>>

\* SambaShareConfig::update(&self, old_name): r is self
LocalUpdate(old_name, r, io) ==
  /\ nops < MaxOps
  /\ pend = <<>>
  /\ LET res == UpdateText(content, old_name, r)
         done == io = "ok" /\ res.ok
     IN /\ content' = IF done THEN res.text ELSE content
        /\ last' = [op |-> "update", ok |-> done, rec |-> r, old |-> old_name, before |-> content,
                    err |-> IF io = "open_fails" THEN "Failed to open"
                            ELSE IF ~res.ok THEN res.err
                            ELSE IF io = "write_fails" THEN "Failed to write to"
                            ELSE ""]
  /\ nops' = nops + 1
  /\ UNCHANGED <<pend, mntVars, listVars>>

InitLocal ==
  /\ content \in LocalTexts
  /\ last = NoEdit
  /\ nops = 0
  /\ pend = <<>>
  /\ MntIdle
  /\ ListIdle

NextLocal ==
  \/ \E r \in LocalRecords, io \in IoOutcomes : LocalWrite(r, io)
  \/ \E old_name \in LocalOldNames, r \in LocalRecords, io \in IoOutcomes :
       LocalUpdate(old_name, r, io)

SpecLocal == InitLocal /\ [][NextLocal]_vars


(***************************************************************************)
(* Remote shares: the configurations and records the model starts from     *)
(***************************************************************************)
\* two fileSystems entries
RemoteLinesTwo ==
  <<
    \* {
    <<"{">>,
    \* fileSystems."/m" = {
    <<"f","i","l","e","S","y","s","t","e","m","s",".","\"","/","m","\""," ","="," ","{">>,
    \*   device = "//h/s";
    <<" "," ","d","e","v","i","c","e"," ","="," ","\"","/","/","h","/","s","\"",";">>,
    \*   fsType = "cifs";
    <<" "," ","f","s","T","y","p","e"," ","="," ","\"","c","i","f","s","\"",";">>,
    \*   options = [ "uid=1" ];
    <<" "," ","o","p","t","i","o","n","s"," ","="," ","["," ","\"","u","i","d","=","1","\""," ","]",";">>,
    \* };
    <<"}",";">>,
    \* 
    <<>>,
    \* fileSystems."/n" = {
    <<"f","i","l","e","S","y","s","t","e","m","s",".","\"","/","n","\""," ","="," ","{">>,
    \*   device = "//h/t";
    <<" "," ","d","e","v","i","c","e"," ","="," ","\"","/","/","h","/","t","\"",";">>,
    \*   fsType = "cifs";
    <<" "," ","f","s","T","y","p","e"," ","="," ","\"","c","i","f","s","\"",";">>,
    \* };
    <<"}",";">>,
    \* }
    <<"}">>
  >>

\* an entry whose block holds a nested block
RemoteLinesNested ==
  <<
    \* {
    <<"{">>,
    \* fileSystems."/m" = {
    <<"f","i","l","e","S","y","s","t","e","m","s",".","\"","/","m","\""," ","="," ","{">>,
    \*   x = { y = 1; };
    <<" "," ","x"," ","="," ","{"," ","y"," ","="," ","1",";"," ","}",";">>,
    \*   device = "//h/s";
    <<" "," ","d","e","v","i","c","e"," ","="," ","\"","/","/","h","/","s","\"",";">>,
    \*   fsType = "cifs";
    <<" "," ","f","s","T","y","p","e"," ","="," ","\"","c","i","f","s","\"",";">>,
    \* };
    <<"}",";">>,
    \* fileSystems."/n" = {
    <<"f","i","l","e","S","y","s","t","e","m","s",".","\"","/","n","\""," ","="," ","{">>,
    \*   fsType = "cifs";
    <<" "," ","f","s","T","y","p","e"," ","="," ","\"","c","i","f","s","\"",";">>,
    \* };
    <<"}",";">>,
    \* }
    <<"}">>
  >>

\* the key of an entry also occurs in a comment before it
RemoteLinesComment ==
  <<
    \* {
    <<"{">>,
    \* # fileSystems."/m" = { old };
    <<"#"," ","f","i","l","e","S","y","s","t","e","m","s",".","\"","/","m","\""," ","="," ","{"," ","o","l","d"," ","}",";">>,
    \* fileSystems."/m" = {
    <<"f","i","l","e","S","y","s","t","e","m","s",".","\"","/","m","\""," ","="," ","{">>,
    \*   device = "//h/s";
    <<" "," ","d","e","v","i","c","e"," ","="," ","\"","/","/","h","/","s","\"",";">>,
    \*   fsType = "cifs";
    <<" "," ","f","s","T","y","p","e"," ","="," ","\"","c","i","f","s","\"",";">>,
    \* };
    <<"}",";">>,
    \* }
    <<"}">>
  >>

\* no fileSystems entry
RemoteLinesNoEntry ==
  <<
    \* {
    <<"{">>,
    \*   imports = [ ];
    <<" "," ","i","m","p","o","r","t","s"," ","="," ","["," ","]",";">>,
    \* }
    <<"}">>
  >>

\* each layout with a final newline, and an empty file
RemoteTexts ==
  {Join(l, NL) \o NL :
     l \in {RemoteLinesTwo, RemoteLinesNested, RemoteLinesComment, RemoteLinesNoEntry}}
  \cup {<<>>}

RemoteShare(name, remote_path, option_credentials, force_user, force_group) ==
  [name |-> name, remote_path |-> remote_path, fs_type |-> Cifs,
   option_credentials |-> option_credentials, force_user |-> force_user,
   force_group |-> force_group]

RemoteRecords ==
  {RemoteShare(<<"/","m">>, <<"/","/","h","/","s">>, <<>>, <<>>, <<>>),
   RemoteShare(<<"/","n">>, <<"/","/","h","/","t">>, <<"/","c">>, <<"1">>, <<"2">>),
   RemoteShare(<<"/","o">>, <<"/","/","h","/","u">>, <<>>, <<"1">>, <<>>)}

\* the names update is asked to replace
RemoteOldNames == {<<"/","m">>, <<"/","n">>, <<"/","z">>}

(***************************************************************************)
(* Remote shares: the operations                                           *)
(***************************************************************************)
\* the error of an edit that did not store its text, "" when it did
EditError(io, res) ==
  IF io = "open_fails" THEN "Failed to read"
  ELSE IF ~res.ok THEN res.err
  ELSE IF io = "write_fails" THEN "Failed to write file with elevated privileges."
  ELSE ""

\* RemoteSambaShareConfig::write(&self): r is self; the text is stored by
\* write_with_sudo, which succeeds or fails
RemoteWrite(r, io) ==
  /\ nops < MaxOps
  /\ pend = <<>>
  /\ LET res == RemoteWriteText(content, r)
         done == io = "ok" /\ res.ok
     IN /\ content' = IF done THEN res.text ELSE content
        /\ last' = [op |-> "rwrite", ok |-> done, rec |-> r, old |-> <<>>, before |-> content,
                    err |-> EditError(io, res)]
  /\ nops' = nops + 1
  /\ UNCHANGED <<pend, mntVars, listVars>>

\* RemoteSambaShareConfig::update(&self, old_name) with old_name == self.name: the
\* entry is replaced in place
RemoteUpdateInPlace(old_name, r, io) ==
  /\ nops < MaxOps
  /\ pend = <<>>
  /\ old_name = r.name
  /\ LET res == RemoteReplaceText(content, old_name, r)
         done == io = "ok" /\ res.ok
     IN /\ content' = IF done THEN res.text ELSE content
        /\ last' = [op |-> "rupdate", ok |-> done, rec |-> r, old |-> old_name,
                    before |-> content, err |-> EditError(io, res)]
  /\ nops' = nops + 1
  /\ UNCHANGED <<pend, mntVars, listVars>>

\* RemoteSambaShareConfig::update with a changed name, first half: delete(old_name)
\* stores the text without the old entry; when it fails update returns its error
RemoteUpdateDelete(old_name, r, io) ==
  /\ nops < MaxOps
  /\ pend = <<>>
  /\ old_name # r.name
  /\ LET res == RemoteDeleteText(content, old_name)
         done == io = "ok" /\ res.ok
     IN /\ content' = IF done THEN res.text ELSE content
        /\ last' = [op |-> IF done THEN "rdelete" ELSE "rrename", ok |-> done, rec |-> r,
                    old |-> old_name, before |-> content, err |-> EditError(io, res)]
        /\ pend' = IF done THEN <<[rec |-> r, old |-> old_name, start |-> content]>> ELSE <<>>
  /\ nops' = nops + 1
  /\ UNCHANGED <<mntVars, listVars>>

\* RemoteSambaShareConfig::update with a changed name, second half: self.write()
\* reads the file again and inserts the new entry
RemoteUpdateInsert(io) ==
  /\ pend # <<>>
  /\ LET res == RemoteWriteText(content, pend[1].rec)
         done == io = "ok" /\ res.ok
     IN /\ content' = IF done THEN res.text ELSE content
        /\ last' = [op |-> "rrename", ok |-> done, rec |-> pend[1].rec, old |-> pend[1].old,
                    before |-> content, err |-> EditError(io, res)]
  /\ pend' = <<>>
  /\ UNCHANGED <<nops, mntVars, listVars>>

InitRemote ==
  /\ content \in RemoteTexts
  /\ last = NoEdit
  /\ nops = 0
  /\ pend = <<>>
  /\ MntIdle
  /\ ListIdle

NextRemote ==
  \/ \E r \in RemoteRecords, io \in IoOutcomes : RemoteWrite(r, io)
  \/ \E old_name \in RemoteOldNames, r \in RemoteRecords, io \in IoOutcomes :
       RemoteUpdateInPlace(old_name, r, io)
  \/ \E old_name \in RemoteOldNames, r \in RemoteRecords, io \in IoOutcomes :
       RemoteUpdateDelete(old_name, r, io)
  \/ \E io \in IoOutcomes : RemoteUpdateInsert(io)

SpecRemote == InitRemote /\ [][NextRemote]_vars


(***************************************************************************)
(* Mounting: the inputs and the operating system the model starts from     *)
(***************************************************************************)
\* the largest time stamp (in seconds) a call may read from the clock
MaxTime == 1

\* "//h/s", "h/s", "//h", "//h/s;x", "//h/", "///"
RemoteUrls ==
  {<<"/","/","h","/","s">>, <<"h","/","s">>, <<"/","/","h">>,
   <<"/","/","h","/","s",";","x">>, <<"/","/","h","/">>, <<"/","/","/">>}

\* "/m", "/m/", "m", "/m|x", "/n"
MountPoints ==
  {<<"/","m">>, <<"/","m","/">>, <<"m">>, <<"/","m","|","x">>, <<"/","n">>}

Usernames == {<<"u">>}

Passwords == {<<"p","w">>}

\* get_current_uid() and get_current_gid(), as they are printed
CurrentUid == <<"1","0","0","0">>
CurrentGid == <<"1","0","0">>

\* std::process::id(), as it is printed
ProcessId == <<"7">>

\* MountOptions::default(): the current uid and gid and the three automount
\* options; an absent uid or gid (None) is written <<>>
DefaultMountOptions ==
  [uid |-> CurrentUid, gid |-> CurrentGid,
   additional_opts |-> << <<"x","-","s","y","s","t","e","m","d",".","a","u","t","o","m","o","u","n","t">>,
                          <<"n","o","a","u","t","o">>,
                          <<"x","-","s","y","s","t","e","m","d",".","i","d","l","e","-",
                            "t","i","m","e","o","u","t","=","3","0","0">> >>]

MountOptionsSet == {DefaultMountOptions, [uid |-> <<>>, gid |-> <<"5">>, additional_opts |-> <<>>]}

\* what a failing mount or umount command prints
StderrTexts ==
  {<<"m","o","u","n","t"," ","e","r","r","o","r","(","1","3",")",":"," ",
     "P","e","r","m","i","s","s","i","o","n"," ","d","e","n","i","e","d","\n">>,
   <<"u","m","o","u","n","t",":"," ","/","m",":"," ","t","a","r","g","e","t"," ","i","s"," ","b","u","s","y",".","\n">>,
   <<" ","w","e","i","r","d","\n">>}

MountRow(source, target, fstype) ==
  [source |-> source, target |-> target, fstype |-> fstype, options |-> <<"r","w">>]

\* the mount tables the model starts from: nothing mounted, a cifs share on /m,
\* an ext4 file system on /n beside it
MountTables ==
  {<<>>,
   <<MountRow(<<"/","/","h","/","s">>, <<"/","m">>, Cifs)>>,
   <<MountRow(<<"/","d","e","v">>, <<"/","n">>, <<"e","x","t","4">>),
     MountRow(<<"/","/","h","/","s">>, <<"/","m">>, Cifs)>>}

\* one decimal digit, as it is printed
Digit(n) == <<"0","1","2","3","4","5","6","7","8","9">>[n + 1]

\* the path of the credentials file: /tmp/smb_creds_<pid>_<seconds>
CredsPathOf(pid, timestamp) ==
  <<"/","t","m","p","/","s","m","b","_","c","r","e","d","s","_">> \o pid \o <<"_">> \o <<Digit(timestamp)>>

\* the content of the credentials file
CredsContent(username, password) ==
  <<"u","s","e","r","n","a","m","e","=">> \o username \o NL
  \o <<"p","a","s","s","w","o","r","d","=">> \o password \o NL

\* the mount options mount_share joins with ","
MountOpts(path, options) ==
  << <<"c","r","e","d","e","n","t","i","a","l","s","=">> \o path,
     <<"u","i","d","=">> \o (IF options.uid = <<>> THEN CurrentUid ELSE options.uid),
     <<"g","i","d","=">> \o (IF options.gid = <<>> THEN CurrentGid ELSE options.gid) >>
  \o options.additional_opts

\* the arguments mount_share gives to the mount command
MountArgs(remote_url, mount_point, path, options) ==
  << <<"-","t">>, Cifs, remote_url, mount_point, <<"-","o">>, Join(MountOpts(path, options), <<",">>) >>

Effect(cmd, args) == [cmd |-> cmd, args |-> args]

\* the queries list_cifs_mounts makes: findmnt, and /proc/mounts when findmnt fails
ListingEffects(findmnt) ==
  <<Effect("findmnt", <<>>)>> \o (IF findmnt = "ok" THEN <<>> ELSE <<Effect("read /proc/mounts", <<>>)>>)

Err(e) == [ok |-> FALSE, err |-> e]

Ok == [ok |-> TRUE, err |-> <<>>]

\* remove_file that removes nothing
KeepFile(fs, path) == fs

\* files without the file at path (fs::remove_file, its failure ignored)
RemoveFile(fs, path) == [p \in DOMAIN fs \ {path} |-> fs[p]]

\* files with the file at path holding content: a new file gets the bits of
\* mode, an existing file keeps its own (fs::write)
WriteFile(fs, path, mode, data) ==
  [p \in DOMAIN fs \cup {path} |->
     IF p = path
     THEN [mode |-> IF path \in DOMAIN fs THEN fs[path].mode ELSE mode, content |-> data]
     ELSE fs[p]]

\* the mount table without its last row mounted on mount_point (umount)
RemoveMount(table, mount_point) ==
  LET hits == {i \in 1..Len(table) : PathEq(table[i].target, mount_point)}
  IN IF hits = {} THEN table
     ELSE SubSeq(table, 1, SetMax(hits) - 1) \o SubSeq(table, SetMax(hits) + 1, Len(table))

(***************************************************************************)
(* mount_share, step by step                                               *)
(***************************************************************************)
\* the caller calls mount_share
MountShareCall(remote_url, mount_point, username, password, options) ==
  /\ mpc \in {"idle", "done"}
  /\ ncalls < MaxCalls
  /\ mpc' = "validate"
  /\ call' = [fn |-> "mount_share", remote_url |-> remote_url, mount_point |-> mount_point,
              username |-> username, password |-> password, options |-> options]
  /\ effects' = <<>> /\ result' = NoResult /\ listing' = NoListing /\ output' = NoOutput
  /\ creds_path' = <<>>
  /\ ncalls' = ncalls + 1
  /\ UNCHANGED <<mounts, dirs, files, cfgVars, listVars>>

\* mount_share checking the remote url only
MountValidateUrlOnly ==
  /\ mpc = "validate"
  /\ LET e1 == ValidateRemoteUrl(call.remote_url)
     IN IF e1 # "" THEN mpc' = "done" /\ result' = Err(<<e1>>)
        ELSE mpc' = "check" /\ UNCHANGED result
  /\ UNCHANGED <<call, mounts, dirs, files, effects, listing, output, creds_path, ncalls,
                 cfgVars, listVars>>

\* validate_remote_url(remote_url)?; validate_mount_point(mount_point)?;
MountValidate ==
  /\ mpc = "validate"
  /\ LET e1 == ValidateRemoteUrl(call.remote_url)
         e2 == ValidateMountPoint(call.mount_point)
     IN IF e1 # "" THEN mpc' = "done" /\ result' = Err(<<e1>>)
        ELSE IF e2 # "" THEN mpc' = "done" /\ result' = Err(<<e2>>)
        ELSE mpc' = "check" /\ UNCHANGED result
  /\ UNCHANGED <<call, mounts, dirs, files, effects, listing, output, creds_path, ncalls,
                 cfgVars, listVars>>

\* mount_share going on whatever is_mounted answers
MountCheckIgnored(findmnt, proc) ==
  /\ mpc = "check"
  /\ listing' = ListCifsMounts(mounts, findmnt, proc)
  /\ effects' = effects \o ListingEffects(findmnt)
  /\ mpc' = "mkdir"
  /\ UNCHANGED <<call, mounts, dirs, files, result, output, creds_path, ncalls, cfgVars, listVars>>

\* if is_mounted(mount_point) { return Err(..already mounted) }
MountCheck(findmnt, proc) ==
  /\ mpc = "check"
  /\ LET l == ListCifsMounts(mounts, findmnt, proc)
     IN /\ listing' = l
        /\ effects' = effects \o ListingEffects(findmnt)
        /\ IF IsMounted(l, call.mount_point)
           THEN mpc' = "done" /\ result' = Err(<<"Mount point ", call.mount_point, " is already mounted">>)
           ELSE mpc' = "mkdir" /\ UNCHANGED result
  /\ UNCHANGED <<call, mounts, dirs, files, output, creds_path, ncalls, cfgVars, listVars>>

\* if !mount_point.exists() { fs::create_dir_all(mount_point)? }
MountMkdir(out) ==
  /\ mpc = "mkdir"
  /\ IF Components(call.mount_point) \in dirs
     THEN mpc' = "creds_write" /\ UNCHANGED <<dirs, effects, result>>
     ELSE /\ effects' = Append(effects, Effect("create_dir_all", <<call.mount_point>>))
          /\ IF out = "ok"
             THEN /\ dirs' = dirs \cup {Components(call.mount_point)}
                  /\ mpc' = "creds_write"
                  /\ UNCHANGED result
             ELSE /\ mpc' = "done"
                  /\ result' = Err(<<"Failed to create mount point directory">>)
                  /\ UNCHANGED dirs
  /\ UNCHANGED <<call, mounts, files, listing, output, creds_path, ncalls, cfgVars, listVars>>

\* CredentialsFile::new, first half: fs::write(&path, content)?; the file may not
\* be created at all, or be created and the writing fail
MountCredsWrite(timestamp, mode, out) ==
  /\ mpc = "creds_write"
  /\ LET path == CredsPathOf(ProcessId, timestamp)
     IN /\ effects' = Append(effects, Effect("write", <<path>>))
        /\ CASE out = "ok" ->
                  /\ files' = WriteFile(files, path, mode, CredsContent(call.username, call.password))
                  /\ creds_path' = path
                  /\ mpc' = "creds_chmod"
                  /\ UNCHANGED result
             [] out = "create_fails" ->
                  /\ mpc' = "done"
                  /\ result' = Err(<<"Failed to create credentials file">>)
                  /\ UNCHANGED <<files, creds_path>>
             [] out = "write_fails" ->
                  /\ files' = WriteFile(files, path, mode, <<>>)
                  /\ creds_path' = path
                  /\ mpc' = "done"
                  /\ result' = Err(<<"Failed to create credentials file">>)
  /\ UNCHANGED <<call, mounts, dirs, listing, output, ncalls, cfgVars, listVars>>

\* CredentialsFile::new, second half: fs::set_permissions(&path, 0o600)?; on failure
\* new returns before a CredentialsFile exists, so nothing is dropped
MountCredsChmod(out) ==
  /\ mpc = "creds_chmod"
  /\ effects' = Append(effects, Effect("set_permissions", <<creds_path>>))
  /\ IF out = "ok"
     THEN /\ files' = [files EXCEPT ![creds_path].mode = "0600"]
          /\ mpc' = "mount"
          /\ UNCHANGED result
     ELSE /\ mpc' = "done"
          /\ result' = Err(<<"Failed to set credentials file permissions">>)
          /\ UNCHANGED files
  /\ UNCHANGED <<call, mounts, dirs, listing, output, creds_path, ncalls, cfgVars, listVars>>

\* mount_share giving the password to the mount command as an option
MountRunPasswordOption(out, err) ==
  /\ mpc = "mount"
  /\ effects' = effects
                \o <<Effect("mount", MountArgs(call.remote_url, call.mount_point, creds_path, call.options)
                                     \o << <<"p","a","s","s","w","o","r","d","=">> \o call.password >>),
                     Effect("remove_file", <<creds_path>>)>>
  /\ files' = RemoveFile(files, creds_path)
  /\ output' = [status |-> out, stderr |-> err]
  /\ result' = IF out = "exit_zero" THEN Ok ELSE Err(<<"Failed to execute mount command">>)
  /\ mpc' = "done"
  /\ UNCHANGED <<call, mounts, dirs, listing, creds_path, ncalls, cfgVars, listVars>>

\* Command::new("mount")...output(), the check of its status, and the drop of
\* creds_file when mount_share returns
MountRun(out, err) ==
  /\ mpc = "mount"
  /\ effects' = effects
                \o <<Effect("mount", MountArgs(call.remote_url, call.mount_point, creds_path, call.options)),
                     Effect("remove_file", <<creds_path>>)>>
  /\ files' = RemoveFile(files, creds_path)
  /\ CASE out = "spawn_fails" ->
            /\ result' = Err(<<"Failed to execute mount command">>)
            /\ output' = [status |-> out, stderr |-> <<>>] /\ UNCHANGED mounts
       [] out = "exit_nonzero" ->
            /\ output' = [status |-> out, stderr |-> err]
            /\ result' = Err(ParseMountError(err))
            /\ UNCHANGED mounts
       [] out = "exit_zero" ->
            /\ mounts' = Append(mounts, [source |-> call.remote_url, target |-> call.mount_point,
                                         fstype |-> Cifs,
                                         options |-> Join(MountOpts(creds_path, call.options), <<",">>)])
            /\ result' = Ok
            /\ output' = [status |-> out, stderr |-> <<>>]
  /\ mpc' = "done"
  /\ UNCHANGED <<call, dirs, listing, creds_path, ncalls, cfgVars, listVars>>

(***************************************************************************)
(* unmount_share, step by step                                             *)
(***************************************************************************)
\* the caller calls unmount_share
UnmountShareCall(mount_point) ==
  /\ mpc \in {"idle", "done"}
  /\ ncalls < MaxCalls
  /\ mpc' = "u_check"
  /\ call' = [fn |-> "unmount_share", mount_point |-> mount_point]
  /\ effects' = <<>> /\ result' = NoResult /\ listing' = NoListing /\ output' = NoOutput
  /\ creds_path' = <<>>
  /\ ncalls' = ncalls + 1
  /\ UNCHANGED <<mounts, dirs, files, cfgVars, listVars>>

\* unmount_share going on whatever is_mounted answers
UnmountCheckIgnored(findmnt, proc) ==
  /\ mpc = "u_check"
  /\ listing' = ListCifsMounts(mounts, findmnt, proc)
  /\ effects' = effects \o ListingEffects(findmnt)
  /\ mpc' = "u_umount"
  /\ UNCHANGED <<call, mounts, dirs, files, result, output, creds_path, ncalls, cfgVars, listVars>>

\* if !is_mounted(mount_point) { return Err(..not currently mounted) }
UnmountCheck(findmnt, proc) ==
  /\ mpc = "u_check"
  /\ LET l == ListCifsMounts(mounts, findmnt, proc)
     IN /\ listing' = l
        /\ effects' = effects \o ListingEffects(findmnt)
        /\ IF ~IsMounted(l, call.mount_point)
           THEN mpc' = "done"
                /\ result' = Err(<<"Mount point ", call.mount_point, " is not currently mounted">>)
           ELSE mpc' = "u_umount" /\ UNCHANGED result
  /\ UNCHANGED <<call, mounts, dirs, files, output, creds_path, ncalls, cfgVars, listVars>>

\* Command::new("umount").arg(mount_point).output() and the check of its status
UnmountRun(out, err) ==
  /\ mpc = "u_umount"
  /\ effects' = Append(effects, Effect("umount", <<call.mount_point>>))
  /\ CASE out = "spawn_fails" ->
            /\ result' = Err(<<"Failed to execute umount command">>)
            /\ output' = [status |-> out, stderr |-> <<>>] /\ UNCHANGED mounts
       [] out = "exit_nonzero" ->
            /\ output' = [status |-> out, stderr |-> err]
            /\ result' = Err(ParseUmountError(err))
            /\ UNCHANGED mounts
       [] out = "exit_zero" ->
            /\ mounts' = RemoveMount(mounts, call.mount_point)
            /\ result' = Ok
            /\ output' = [status |-> out, stderr |-> <<>>]
  /\ mpc' = "done"
  /\ UNCHANGED <<call, dirs, files, listing, creds_path, ncalls, cfgVars, listVars>>

QueryOutcomes == {"ok", "fails"}

CommandOutcomes == {"spawn_fails", "exit_nonzero", "exit_zero"}

\* the bits of a file created under umask 022 or 077
CreateModes == {"0644", "0600"}

InitMount ==
  /\ mpc = "idle" /\ call = NoCall
  /\ mounts \in MountTables
  /\ \E extra \in {{}, {Components(<<"/","n">>)}} :
       dirs = {Components(mounts[i].target) : i \in 1..Len(mounts)} \cup extra
  /\ files = <<>>
  /\ effects = <<>> /\ result = NoResult /\ listing = NoListing /\ output = NoOutput
  /\ creds_path = <<>> /\ ncalls = 0
  /\ CfgIdle
  /\ ListIdle

NextMount ==
  \/ \E remote_url \in RemoteUrls, mount_point \in MountPoints, username \in Usernames,
        password \in Passwords, options \in MountOptionsSet :
       MountShareCall(remote_url, mount_point, username, password, options)
  \/ MountValidate
  \/ \E findmnt \in QueryOutcomes, proc \in QueryOutcomes : MountCheck(findmnt, proc)
  \/ \E out \in {"ok", "fails"} : MountMkdir(out)
  \/ \E timestamp \in 0..MaxTime, mode \in CreateModes,
        out \in {"ok", "create_fails", "write_fails"} : MountCredsWrite(timestamp, mode, out)
  \/ \E out \in {"ok", "fails"} : MountCredsChmod(out)
  \/ \E out \in CommandOutcomes, err \in StderrTexts : MountRun(out, err)
  \/ \E mount_point \in MountPoints : UnmountShareCall(mount_point)
  \/ \E findmnt \in QueryOutcomes, proc \in QueryOutcomes : UnmountCheck(findmnt, proc)
  \/ \E out \in CommandOutcomes, err \in StderrTexts : UnmountRun(out, err)

SpecMount == InitMount /\ [][NextMount]_vars

(***************************************************************************)
(* list_all_shares on the lists it has read                                *)
(***************************************************************************)
\* the longest list of configured shares
MaxConfigured == 2

\* the longest list of mounted shares
MaxMounted == 2

SeqsUpTo(S, n) == UNION {[1..k -> S] : k \in 0..n}

\* the configured shares a list is drawn from: /m twice, with different remotes,
\* and /x/, the mount point /x written with a trailing slash
ListRecords ==
  RemoteRecords \cup {RemoteShare(<<"/","m">>, <<"/","/","h","/","v">>, <<>>, <<"3">>, <<"4">>),
                      RemoteShare(<<"/","x","/">>, <<"/","/","h","/","t">>, <<>>, <<"3">>, <<"4">>)}

\* the mounted shares a list is drawn from: two remotes on /m, one on /n, one on /x
LiveMounts ==
  {AsMounted(MountRow(<<"/","/","h","/","s">>, <<"/","m">>, Cifs)),
   AsMounted(MountRow(<<"/","/","h","/","w">>, <<"/","m">>, Cifs)),
   AsMounted(MountRow(<<"/","/","h","/","t">>, <<"/","x">>, Cifs)),
   AsMounted(MountRow(<<"/","/","h","/","u">>, <<"/","x">>, Cifs))}

NotListed == [ok |-> FALSE, shares |-> <<>>]

\* list_all_shares, after load_all and list_cifs_mounts have answered
ListAllSharesCall ==
  /\ list_out = NotListed
  /\ list_out' = [ok |-> TRUE, shares |-> ListAllShares(list_in.configured, list_in.mounted)]
  /\ UNCHANGED <<list_in, fn_in, fn_out, threads, clock, cfgVars, mntVars>>

InitList ==
  /\ list_in \in [configured : SeqsUpTo(ListRecords, MaxConfigured),
                  mounted : SeqsUpTo(LiveMounts, MaxMounted)]
  /\ list_out = NotListed
  /\ fn_in = <<>> /\ fn_out = <<>>
  /\ threads = <<>> /\ clock = 0
  /\ CfgIdle
  /\ MntIdle

NextList == ListAllSharesCall

SpecList == InitList /\ [][NextList]_vars

(***************************************************************************)
(* Functions called on their own                                           *)
(***************************************************************************)
\* the largest number of phrases in one error text
MaxPhrases == 2

\* the standard error texts: up to MaxPhrases phrases joined with ": ", after a
\* blank and before a newline; the phrases are those the classification looks for,
\* in upper and lower case, and two it does not know
ErrorTexts ==
  LET ErrorPhrases ==
  {<<"P","e","r","m","i","s","s","i","o","n"," ","d","e","n","i","e","d">>,
   <<"A","C","C","E","S","S"," ","D","E","N","I","E","D">>,
   <<"C","o","n","n","e","c","t","i","o","n"," ","r","e","f","u","s","e","d">>,
   <<"c","o","u","l","d"," ","n","o","t"," ","r","e","s","o","l","v","e">>,
   <<"a","l","r","e","a","d","y"," ","m","o","u","n","t","e","d">>,
   <<"t","a","r","g","e","t"," ","i","s"," ","b","u","s","y">>,
   <<"N","o"," ","s","u","c","h"," ","f","i","l","e"," ","o","r"," ","d","i","r","e","c","t","o","r","y">>,
   <<"I","n","v","a","l","i","d"," ","a","r","g","u","m","e","n","t">>,
   <<"H","o","s","t"," ","i","s"," ","d","o","w","n">>,
   <<"n","o","t"," ","m","o","u","n","t","e","d">>,
   <<"W","e","i","r","d">>,
   <<"m","o","u","n","t"," ","e","r","r","o","r","(","1","3",")">>}
  IN {<<" ">> \o Join(ps, <<":"," ">>) \o NL : ps \in SeqsUpTo(ErrorPhrases, MaxPhrases)}

\* parse_mount_error(stderr)
ParseMountErrorCall ==
  /\ fn_in.fn = "parse_mount_error"
  /\ fn_out = <<>>
  /\ fn_out' = ParseMountError(fn_in.arg)
  /\ UNCHANGED <<fn_in, list_in, list_out, threads, clock, cfgVars, mntVars>>

\* parse_umount_error(stderr)
ParseUmountErrorCall ==
  /\ fn_in.fn = "parse_umount_error"
  /\ fn_out = <<>>
  /\ fn_out' = ParseUmountError(fn_in.arg)
  /\ UNCHANGED <<fn_in, list_in, list_out, threads, clock, cfgVars, mntVars>>

\* the shares "a" and "b" of LinesMulti in a settings container declared in other
\* ways: with a dotted key, with single-segment keys, and as in LinesMulti with a
\* comment line naming the section before the section or between the two shares
ContainerLayouts ==
  [dotted |->
     << <<"{">>,
        \*   services.samba.settings = {
        <<" "," ","s","e","r","v","i","c","e","s",".","s","a","m","b","a",".",
          "s","e","t","t","i","n","g","s"," ","="," ","{">> >>
     \o SubSeq(LinesMulti, 4, 10)
     \o << <<" "," ","}",";">>, <<"}">> >>,
   nested |->
     << <<"{">>,
        \*   services = {
        <<" "," ","s","e","r","v","i","c","e","s"," ","="," ","{">>,
        \*     samba = {
        <<" "," "," "," ","s","a","m","b","a"," ","="," ","{">>,
        \*       settings = {
        <<" "," "," "," "," "," ","s","e","t","t","i","n","g","s"," ","="," ","{">> >>
     \o SubSeq(LinesMulti, 4, 10)
     \o << <<" "," "," "," "," "," ","}",";">>, <<" "," "," "," ","}",";">>,
           <<" "," ","}",";">>, <<"}">> >>,
   \*   # services.samba = { old };
   comment_before |->
     InsertAt(LinesMulti, 2, <<" "," ","#"," ","s","e","r","v","i","c","e","s",".","s","a","m","b","a",
                               " ","="," ","{"," ","o","l","d"," ","}",";">>),
   comment_between |->
     InsertAt(LinesMulti, 8, <<" "," ","#"," ","s","e","r","v","i","c","e","s",".","s","a","m","b","a",
                               " ","="," ","{"," ","o","l","d"," ","}",";">>)]

\* the properties an entry may carry, each as the text of its value in the file,
\* <<>> when the entry does not have the property: yes and no, a value that is not
\* yes (true, Yes), a quoted yes, and a property load_all does not know
PropertyChoices ==
  [path : {<<>>, <<"\"","/","p","\"">>},
   browseable : {<<>>, No, Yes, <<"t","r","u","e">>},
   read_only : {<<>>, Yes, No},
   guest_ok : {<<>>, <<"\"","y","e","s","\"">>, <<"Y","e","s">>},
   force_user : {<<>>, <<"\"","u","\"">>},
   valid_users : {<<>>, <<"\"","x","\"">>}]

\* the configuration with the one entry "a" carrying the properties of c, each
\* property on a line of its own or, with oneline, the whole entry on one line
EntryText(c, oneline) ==
  LET Quoted(k) == <<"\"">> \o k \o <<"\"">>
      all == << <<KeyPath, c.path>>, <<KeyBrowseable, c.browseable>>,
                <<Quoted(KeyReadOnly), c.read_only>>, <<Quoted(KeyGuestOk), c.guest_ok>>,
                <<Quoted(KeyForceUser), c.force_user>>,
                <<<<"\"","v","a","l","i","d"," ","u","s","e","r","s","\"">>, c.valid_users>> >>
      present == SelectSeq(all, LAMBDA kv : kv[2] # <<>>)
      props == [i \in 1..Len(present) |-> present[i][1] \o <<" ","="," ">> \o present[i][2] \o <<";">>]
      key == <<" "," "," "," "," "," ","\"","a","\""," ","="," ","{">>
      entry == IF oneline
               THEN << key \o <<" ">> \o Join([i \in 1..Len(props) |-> props[i] \o <<" ">>], <<>>) \o KwClose >>
               ELSE << key >> \o [i \in 1..Len(props) |-> <<" "," "," "," "," "," "," "," ">> \o props[i]]
                    \o << <<" "," "," "," "," "," ">> \o KwClose >>
  IN Join(SubSeq(LinesEmpty, 1, 4) \o entry \o SubSeq(LinesEmpty, 5, 7), NL)

\* SambaShareConfig::load_all() on the text of the configuration file
LoadAllCall ==
  /\ fn_in.fn = "load_all"
  /\ fn_out = <<>>
  /\ fn_out' = [ok |-> TRUE, shares |-> LoadAll(fn_in.arg)]
  /\ UNCHANGED <<fn_in, list_in, list_out, threads, clock, cfgVars, mntVars>>

\* the largest number of lines of /proc/mounts
MaxProcLines == 2

\* the texts of /proc/mounts: up to MaxProcLines lines, each ended by a newline;
\* a cifs line, an ext4 line, a cifs line of three fields, a cifs line whose
\* fields a tab and two blanks separate, a line of four fields with "cifs" as its
\* first field, and an empty line
ProcMountsTexts ==
  LET ProcLines ==
    {
     \* //h/s /m cifs rw 0 0
     <<"/","/","h","/","s"," ","/","m"," ","c","i","f","s"," ","r","w"," ","0"," ","0">>,
     \* /dev /n ext4 rw 0 0
     <<"/","d","e","v"," ","/","n"," ","e","x","t","4"," ","r","w"," ","0"," ","0">>,
     \* //h/s /m cifs
     <<"/","/","h","/","s"," ","/","m"," ","c","i","f","s">>,
     \* //h/t<tab>/k  cifs rw,x 0 0
     <<"/","/","h","/","t","\t","/","k"," "," ","c","i","f","s"," ","r","w",",","x"," ","0"," ","0">>,
     \* cifs /c tmpfs rw
     <<"c","i","f","s"," ","/","c"," ","t","m","p","f","s"," ","r","w">>,
     <<>>}
  IN {Join([i \in 1..Len(ls) |-> ls[i] \o NL], <<>>) : ls \in SeqsUpTo(ProcLines, MaxProcLines)}

\* list_cifs_mounts(): arg.findmnt says how the findmnt command ends, arg.table is
\* the mount table it reads, arg.proc says whether /proc/mounts can be read and
\* arg.text is its text
ListCifsMountsCall ==
  /\ fn_in.fn = "list_cifs_mounts"
  /\ fn_out = <<>>
  /\ LET arg == fn_in.arg
         table == IF arg.findmnt = "ok" THEN arg.table
                  ELSE IF arg.proc = "ok" THEN ProcMountsRows(arg.text)
                  ELSE <<>>
     IN fn_out' = [listing |-> ListCifsMounts(table, arg.findmnt, arg.proc),
                   effects |-> ListingEffects(arg.findmnt)]
  /\ UNCHANGED <<fn_in, list_in, list_out, threads, clock, cfgVars, mntVars>>

(***************************************************************************)
(* samba/remote_share_config.rs: load_all over the syntax tree             *)
(***************************************************************************)
\* A NODE_ATTRPATH_VALUE node of the tree Root::parse returns is a record
\*   [path  : the NODE_IDENT and NODE_STRING children of its NODE_ATTRPATH, each
\*            [kind, text], the text of a string with its quotes,
\*    value : [kind, entries], kind "attrset" for a NODE_ATTR_SET, whose entries
\*            are its NODE_ATTRPATH_VALUE children, each
\*            [key, kind, text, items]: the name of its attribute path, the kind
\*            of its value node ("string", "ident", "list" or "other"), the
\*            text of a string or identifier, and the [kind, text] children of a
\*            list]
\* and the tree is the sequence of these nodes in the order the recursion of
\* find_filesystem_entries visits them.
KwFileSystems == <<"f","i","l","e","S","y","s","t","e","m","s">>

KwCredentialsEq == <<"c","r","e","d","e","n","t","i","a","l","s","=">>

KwUidEq == <<"u","i","d","=">>

KwGidEq == <<"g","i","d","=">>

\* get_attrvalue: Some(text) of the first string or identifier child, else None
GetAttrValue(entry) ==
  CASE entry.kind = "string" -> <<TrimMatches(Trim(entry.text), "\"")>>
    [] entry.kind = "ident" -> <<entry.text>>
    [] OTHER -> <<>>

RECURSIVE ListItems(_)
\* the loop of get_attrvalue_list over the children of the list
ListItems(items) ==
  IF items = <<>> THEN <<>>
  ELSE LET item == Head(items)
           rest == ListItems(Tail(items))
       IN CASE item.kind = "string" -> <<TrimMatches(Trim(item.text), "\"")>> \o rest
            [] item.kind = "ident" -> <<item.text>> \o rest
            [] OTHER -> rest

\* get_attrvalue_list: Some(items) of the first list child, else None
GetAttrValueList(entry) ==
  IF entry.kind = "list" THEN <<ListItems(entry.items)>> ELSE <<>>

\* Option::unwrap_or_default and unwrap_or
UnwrapOr(opt, default) == IF opt = <<>> THEN default ELSE opt[1]

\* options_list.iter().find(|opt| opt.starts_with(prefix)) taking the last match
LastOption(options_list, prefix) ==
  LET hits == {i \in 1..Len(options_list) : StartsWith(options_list[i], prefix)}
  IN IF hits = {} THEN <<>> ELSE <<options_list[SetMax(hits)]>>

\* options_list.iter().find(|opt| opt.starts_with(prefix))
FindOption(options_list, prefix) ==
  LET hits == {i \in 1..Len(options_list) : StartsWith(options_list[i], prefix)}
  IN IF hits = {} THEN <<>> ELSE <<options_list[SetMin(hits)]>>

\* the option found, without its prefix
StripOptionPrefix(opt, prefix) ==
  IF opt = <<>> THEN <<>> ELSE <<SubSeq(opt[1], Len(prefix) + 1, Len(opt[1]))>>

RECURSIVE AttrSetFields(_, _)
\* the loop over the entries of the attribute set: device, fsType and options,
\* each as its last entry gives it
AttrSetFields(entries, acc) ==
  IF entries = <<>> THEN acc
  ELSE LET entry == Head(entries)
           next ==
             CASE entry.key = "device" ->
                    [acc EXCEPT !.device = UnwrapOr(GetAttrValue(entry), <<>>)]
               [] entry.key = "fsType" ->
                    [acc EXCEPT !.fs_type = UnwrapOr(GetAttrValue(entry), <<>>)]
               [] entry.key = "options" ->
                    [acc EXCEPT !.options_list = UnwrapOr(GetAttrValueList(entry), <<>>)]
               [] OTHER -> acc
       IN AttrSetFields(Tail(entries), next)

RECURSIVE MountPointOf(_, _)
\* the loop over the attribute path: the text of its last string, unquoted
MountPointOf(path, acc) ==
  IF path = <<>> THEN acc
  ELSE MountPointOf(Tail(path),
                    IF Head(path).kind = "string"
                    THEN TrimMatches(Head(path).text, "\"") ELSE acc)

\* what find_filesystem_entries pushes at one NODE_ATTRPATH_VALUE node
FilesystemEntry(node) ==
  LET is_filesystems ==
        \E i \in 1..Len(node.path) :
          node.path[i].kind = "ident" /\ node.path[i].text = KwFileSystems
      mount_point == MountPointOf(node.path, <<>>)
      f == AttrSetFields(node.value.entries,
                         [device |-> <<>>, fs_type |-> <<>>, options_list |-> <<>>])
      credentials ==
        UnwrapOr(StripOptionPrefix(FindOption(f.options_list, KwCredentialsEq), KwCredentialsEq),
                 <<>>)
      uid == UnwrapOr(StripOptionPrefix(FindOption(f.options_list, KwUidEq), KwUidEq),
                      <<"1","0","0","0">>)
      gid == UnwrapOr(StripOptionPrefix(FindOption(f.options_list, KwGidEq), KwGidEq),
                      <<"1","0","0">>)
  IN IF is_filesystems /\ mount_point # <<>> /\ node.value.kind = "attrset" /\ f.fs_type = Cifs
     THEN << [name |-> mount_point, remote_path |-> f.device, fs_type |-> f.fs_type,
              option_credentials |-> credentials, force_user |-> uid, force_group |-> gid] >>
     ELSE <<>>

RECURSIVE FindFilesystemEntries(_)
\* find_filesystem_entries over the nodes of the tree, in order
FindFilesystemEntries(nodes) ==
  IF nodes = <<>> THEN <<>>
  ELSE FilesystemEntry(Head(nodes)) \o FindFilesystemEntries(Tail(nodes))

\* the largest number of strings in an options list
MaxOptions == 2

\* the strings of an options list, as the tree holds them: two credentials
\* options, two uid options, a gid option and one that is none of them
OptionTexts ==
  {<<"\"">> \o o \o <<"\"">> :
     o \in {KwCredentialsEq \o <<"/","c">>, KwCredentialsEq \o <<"/","d">>,
            KwUidEq \o <<"7">>, KwUidEq \o <<"8">>, KwGidEq \o <<"9">>, <<"r","w">>}}

\* the texts of an fsType value: "cifs", "nfs", "CIFS" and "cifs2"
FsTypeTexts ==
  {<<"\"">> \o t \o <<"\"">> : t \in {Cifs, <<"n","f","s">>, <<"C","I","F","S">>, Cifs \o <<"2">>}}

StringEntry(key, text) == [key |-> key, kind |-> "string", text |-> text, items |-> <<>>]

\* fileSystems."<mount point>" = { device = "//h/s"; fsType = ...; options = [...]; }
\* with the fsType entry and the options entry each there or not
FileSystemsNode(mount_point, fs_types, options) ==
  [path |-> << [kind |-> "ident", text |-> KwFileSystems],
               [kind |-> "string", text |-> <<"\"">> \o mount_point \o <<"\"">>] >>,
   value |-> [kind |-> "attrset",
              entries |-> << StringEntry("device", <<"\"","/","/","h","/","s","\"">>) >>
                          \o [i \in 1..Len(fs_types) |-> StringEntry("fsType", fs_types[i])]
                          \o [i \in 1..Len(options) |->
                                [key |-> "options", kind |-> "list", text |-> <<>>,
                                 items |-> [j \in 1..Len(options[i]) |->
                                              [kind |-> "string", text |-> options[i][j]]]]]]]

\* the trees load_all is given: one fileSystems entry of every fsType and
\* options list; two entries, the first not cifs; and a cifs attribute set that is
\* not a fileSystems entry, beside one that is
RemoteTrees ==
  {<<FileSystemsNode(<<"/","m">>, t, o)>> :
     t \in SeqsUpTo(FsTypeTexts, 1), o \in SeqsUpTo(SeqsUpTo(OptionTexts, MaxOptions), 1)}
  \cup {<<FileSystemsNode(<<"/","m">>, <<t>>, <<>>),
          FileSystemsNode(<<"/","n">>, << <<"\"">> \o Cifs \o <<"\"">> >>, << <<o>> >>)>> :
          t \in FsTypeTexts, o \in OptionTexts}
  \cup {<< [FileSystemsNode(<<"/","m">>, << <<"\"">> \o Cifs \o <<"\"">> >>, <<>>)
             EXCEPT !.path[1].text = <<"s","w","a","p">>],
           FileSystemsNode(<<"/","n">>, << <<"\"">> \o Cifs \o <<"\"">> >>, <<>>) >>,
        <<>>}

\* RemoteSambaShareConfig::load_all(): arg.read says whether the configuration
\* file can be read, arg.nodes is the tree of its text
RemoteLoadAllCall ==
  /\ fn_in.fn = "remote_load_all"
  /\ fn_out = <<>>
  /\ fn_out' = IF fn_in.arg.read = "ok"
               THEN [ok |-> TRUE, shares |-> FindFilesystemEntries(fn_in.arg.nodes)]
               ELSE [ok |-> FALSE, shares |-> <<>>]
  /\ UNCHANGED <<fn_in, list_in, list_out, threads, clock, cfgVars, mntVars>>

\* the calls of a function on its own: the function and its argument
FnInputs ==
  [fn : {"parse_mount_error", "parse_umount_error"}, arg : ErrorTexts]
  \cup [fn : {"load_all"},
        arg : LocalTexts \cup {Join(ContainerLayouts[k], NL) : k \in DOMAIN ContainerLayouts}
              \cup {EntryText(c, oneline) : c \in PropertyChoices, oneline \in BOOLEAN}]
  \cup [fn : {"list_cifs_mounts"},
        arg : [findmnt : {"ok", "not spawned", "exit status 1", "no JSON"},
               table : MountTables, proc : QueryOutcomes, text : ProcMountsTexts]]
  \cup [fn : {"remote_load_all"},
        arg : [read : {"ok"}, nodes : RemoteTrees] \cup [read : {"fails"}, nodes : {<<>>}]]

InitFn ==
  /\ fn_in \in FnInputs
  /\ fn_out = <<>>
  /\ list_in = <<>> /\ list_out = <<>>
  /\ threads = <<>> /\ clock = 0
  /\ CfgIdle
  /\ MntIdle

NextFn ==
  \/ ParseMountErrorCall
  \/ ParseUmountErrorCall
  \/ LoadAllCall
  \/ ListCifsMountsCall
  \/ RemoteLoadAllCall

SpecFn == InitFn /\ [][NextFn]_vars

(***************************************************************************)
(* samba/sudo_write.rs: write_with_sudo, step by step                      *)
(***************************************************************************)
\* "/etc/nixos/customConfig/default.nix"
ConfigPath == <<"/","e","t","c","/","n","i","x","o","s","/","c","u","s","t","o","m","C","o","n","f","i","g","/","d","e","f","a","u","l","t",".","n","i","x">>

\* format!("/tmp/samba_share_config_{}.tmp", std::process::id())
TempPath == <<"/","t","m","p","/","s","a","m","b","a","_","s","h","a","r","e","_","c","o","n","f","i","g","_">> \o ProcessId \o <<".","t","m","p">>

\* the helpers with /run/wrappers/bin/pkexec behind the others
HelpersWrappedLast ==
  << [cmd |-> "run0", args |-> <<>>, cancels |-> FALSE],
     [cmd |-> "pkexec", args |-> <<>>, cancels |-> TRUE],
     [cmd |-> "sudo", args |-> << <<"-","n">> >>, cancels |-> FALSE],
     [cmd |-> "/run/wrappers/bin/pkexec", args |-> <<>>, cancels |-> TRUE] >>

\* the helpers write_with_sudo tries, in the order of the code: the command, its
\* arguments before cp, and whether its standard error is searched for a dismissal
Helpers ==
  << [cmd |-> "/run/wrappers/bin/pkexec", args |-> <<>>, cancels |-> TRUE],
     [cmd |-> "run0", args |-> <<>>, cancels |-> FALSE],
     [cmd |-> "pkexec", args |-> <<>>, cancels |-> TRUE],
     [cmd |-> "sudo", args |-> << <<"-","n">> >>, cancels |-> FALSE] >>

\* what a helper that exits with another status than zero prints: a dismissal,
\* a refusal, a refusal in lower case, and another failure
HelperStderrTexts ==
  {<<"E","r","r","o","r"," ","e","x","e","c","u","t","i","n","g"," ","c","o","m","m","a","n","d"," ","a","s"," ","a","n","o","t","h","e","r"," ","u","s","e","r",":"," ","R","e","q","u","e","s","t"," ","d","i","s","m","i","s","s","e","d">>,
   <<"E","r","r","o","r"," ","e","x","e","c","u","t","i","n","g"," ","c","o","m","m","a","n","d"," ","a","s"," ","a","n","o","t","h","e","r"," ","u","s","e","r",":"," ","N","o","t"," ","a","u","t","h","o","r","i","z","e","d">>,
   <<"n","o","t"," ","a","u","t","h","o","r","i","z","e","d">>,
   <<"s","u","d","o",":"," ","a"," ","p","a","s","s","w","o","r","d"," ","i","s"," ","r","e","q","u","i","r","e","d">>}

\* the caller calls write_with_sudo(path, content)
WriteWithSudoCall(text) ==
  /\ mpc \in {"idle", "done"}
  /\ ncalls < MaxCalls
  /\ mpc' = "direct"
  /\ call' = [fn |-> "write_with_sudo", path |-> ConfigPath, content |-> text]
  /\ effects' = <<>> /\ result' = NoResult /\ output' = NoOutput
  /\ ncalls' = ncalls + 1
  /\ UNCHANGED <<content, last, nops, pend, mounts, dirs, files, listing, creds_path, listVars>>

\* if fs::write(path, content).is_ok() { return Ok(()) }
SudoDirectWrite(out) ==
  /\ mpc = "direct"
  /\ effects' = Append(effects, Effect("write", <<call.path>>))
  /\ IF out = "ok"
     THEN content' = call.content /\ result' = Ok /\ mpc' = "done"
     ELSE mpc' = "temp" /\ UNCHANGED <<content, result>>
  /\ UNCHANGED <<last, nops, pend, call, mounts, dirs, files, listing, output, creds_path,
                 ncalls, listVars>>

\* fs::write(&temp_path, content)?; the file may not be created at all, or be
\* created and the writing fail
SudoTempWrite(mode, out) ==
  /\ mpc = "temp"
  /\ effects' = Append(effects, Effect("write", <<TempPath>>))
  /\ CASE out = "ok" ->
            /\ files' = WriteFile(files, TempPath, mode, call.content)
            /\ mpc' = Helpers[1].cmd
            /\ UNCHANGED result
       [] out = "create_fails" ->
            /\ mpc' = "done"
            /\ result' = Err(<<"Failed to write temporary file">>)
            /\ UNCHANGED files
       [] out = "write_fails" ->
            /\ files' = WriteFile(files, TempPath, mode, <<>>)
            /\ mpc' = "done"
            /\ result' = Err(<<"Failed to write temporary file">>)
  /\ UNCHANGED <<cfgVars, call, mounts, dirs, listing, output, creds_path, ncalls, listVars>>

\* one of the four blocks `if let Ok(output) = Command::new(helper)...output()`:
\* the helper copies the temporary file onto path; on success the temporary file
\* is removed and Ok returned, on a dismissal seen by a pkexec it is removed and
\* the cancellation returned, otherwise the next block runs; after the last block
\* the temporary file is removed and the privilege error returned
SudoHelper(out, err) ==
  \E n \in DOMAIN Helpers :
    /\ mpc = Helpers[n].cmd
    /\ LET h == Helpers[n]
           run == Effect(h.cmd, h.args \o << <<"c","p">>, TempPath, call.path >>)
           remove == Effect("remove_file", <<TempPath>>)
           cancelled == /\ out = "exit_nonzero" /\ h.cancels
                        /\ \/ Contains(err, <<"d","i","s","m","i","s","s","e","d">>)
                           \/ Contains(err, <<"N","o","t"," ","a","u","t","h","o","r","i","z","e","d">>)
       IN /\ output' = [status |-> out, stderr |-> IF out = "exit_nonzero" THEN err ELSE <<>>]
          /\ IF out = "exit_zero"
             THEN /\ content' = files[TempPath].content
                  /\ files' = RemoveFile(files, TempPath)
                  /\ effects' = effects \o <<run, remove>>
                  /\ result' = Ok /\ mpc' = "done"
             ELSE IF cancelled
             THEN /\ files' = RemoveFile(files, TempPath)
                  /\ effects' = effects \o <<run, remove>>
                  /\ result' = Err(<<"Authorization cancelled by user">>) /\ mpc' = "done"
                  /\ UNCHANGED content
             ELSE IF n < Len(Helpers)
             THEN /\ effects' = Append(effects, run)
                  /\ mpc' = Helpers[n + 1].cmd
                  /\ UNCHANGED <<content, files, result>>
             ELSE /\ files' = RemoveFile(files, TempPath)
                  /\ effects' = effects \o <<run, remove>>
                  /\ result' = Err(<<"Failed to write file with elevated privileges.">>)
                  /\ mpc' = "done"
                  /\ UNCHANGED content
    /\ UNCHANGED <<last, nops, pend, call, mounts, dirs, listing, creds_path, ncalls, listVars>>

InitSudo ==
  /\ mpc = "idle" /\ call = NoCall /\ mounts = <<>> /\ dirs = {} /\ files = <<>>
  /\ effects = <<>> /\ result = NoResult /\ listing = NoListing /\ output = NoOutput
  /\ creds_path = <<>> /\ ncalls = 0
  /\ content \in {<<>>, <<"{","}">>}
  /\ last = NoEdit /\ nops = 0 /\ pend = <<>>
  /\ ListIdle

NextSudo ==
  \/ \E text \in {<<"{"," ","}">>, <<"{","a","}">>} : WriteWithSudoCall(text)
  \/ \E out \in {"ok", "fails"} : SudoDirectWrite(out)
  \/ \E mode \in CreateModes, out \in {"ok", "create_fails", "write_fails"} : SudoTempWrite(mode, out)
  \/ \E out \in CommandOutcomes, err \in HelperStderrTexts : SudoHelper(out, err)

SpecSudo == InitSudo /\ [][NextSudo]_vars

(***************************************************************************)
(* mount_share on several threads: the credentials file of each            *)
(***************************************************************************)
\* the number of threads of the process that call mount_share
MaxThreads == 2

\* the credentials thread t mounts with: the user u and a password of its own
ThreadCredentials(t) == CredsContent(<<"u">>, <<Digit(t)>>)

\* the other variables of the mount state are not part of these behaviours
ThreadFrame ==
  UNCHANGED <<cfgVars, mpc, call, mounts, dirs, effects, result, listing, output, creds_path,
              ncalls, list_in, list_out, fn_in, fn_out>>

\* the system clock passes to the next second
ClockTick ==
  /\ clock < MaxTime
  /\ clock' = clock + 1
  /\ UNCHANGED <<threads, files>>
  /\ ThreadFrame

\* CredentialsFile::new on thread t: the clock is read and the path formed
ThreadCredsPath(t) ==
  /\ threads[t].pc = "new"
  /\ threads' = [threads EXCEPT ![t].pc = "write", ![t].path = CredsPathOf(ProcessId, clock)]
  /\ UNCHANGED <<clock, files>>
  /\ ThreadFrame

\* CredentialsFile::new on thread t: fs::write(&path, content)?
ThreadCredsWrite(t, out) ==
  /\ threads[t].pc = "write"
  /\ CASE out = "ok" ->
            /\ files' = WriteFile(files, threads[t].path, "0644", ThreadCredentials(t))
            /\ threads' = [threads EXCEPT ![t].pc = "chmod"]
       [] out = "create_fails" ->
            /\ threads' = [threads EXCEPT ![t].pc = "done"]
            /\ UNCHANGED files
       [] out = "write_fails" ->
            /\ files' = WriteFile(files, threads[t].path, "0644", <<>>)
            /\ threads' = [threads EXCEPT ![t].pc = "done"]
  /\ UNCHANGED clock
  /\ ThreadFrame

\* CredentialsFile::new on thread t: fs::set_permissions(&path, 0o600)?, which
\* fails when the file is no longer there; new then returns without a
\* CredentialsFile and nothing is dropped
ThreadCredsChmod(t, out) ==
  /\ threads[t].pc = "chmod"
  /\ IF out = "ok" /\ threads[t].path \in DOMAIN files
     THEN /\ files' = [files EXCEPT ![threads[t].path].mode = "0600"]
          /\ threads' = [threads EXCEPT ![t].pc = "mount"]
     ELSE /\ threads' = [threads EXCEPT ![t].pc = "done"]
          /\ UNCHANGED files
  /\ UNCHANGED clock
  /\ ThreadFrame

\* mount_share on thread t: the mount command runs and reads the file named by
\* its credentials= option
ThreadMountRun(t) ==
  /\ threads[t].pc = "mount"
  /\ threads' = [threads EXCEPT
                   ![t].pc = "drop",
                   ![t].read = IF threads[t].path \in DOMAIN files
                               THEN <<[found |-> TRUE, content |-> files[threads[t].path].content]>>
                               ELSE <<[found |-> FALSE, content |-> <<>>]>>]
  /\ UNCHANGED <<clock, files>>
  /\ ThreadFrame

\* mount_share returns on thread t and creds_file is dropped: fs::remove_file
ThreadDrop(t) ==
  /\ threads[t].pc = "drop"
  /\ files' = RemoveFile(files, threads[t].path)
  /\ threads' = [threads EXCEPT ![t].pc = "done"]
  /\ UNCHANGED clock
  /\ ThreadFrame

InitThreads ==
  /\ threads = [t \in 1..MaxThreads |-> [pc |-> "new", path |-> <<>>, read |-> <<>>]]
  /\ clock = 0
  /\ list_in = <<>> /\ list_out = <<>> /\ fn_in = <<>> /\ fn_out = <<>>
  /\ CfgIdle
  /\ MntIdle

NextThreads ==
  \/ ClockTick
  \/ \E t \in 1..MaxThreads : ThreadCredsPath(t)
  \/ \E t \in 1..MaxThreads, out \in {"ok", "create_fails", "write_fails"} :
       ThreadCredsWrite(t, out)
  \/ \E t \in 1..MaxThreads, out \in QueryOutcomes : ThreadCredsChmod(t, out)
  \/ \E t \in 1..MaxThreads : ThreadMountRun(t)
  \/ \E t \in 1..MaxThreads : ThreadDrop(t)

SpecThreads == InitThreads /\ [][NextThreads]_vars

(***************************************************************************)
(* Properties of the configuration edits                                   *)
(***************************************************************************)
\* the configurations whose services.samba settings container is empty
EmptyContainerTexts == {Join(LinesEmpty, NL), Join(LinesEmpty, NL) \o NL}

\* C1: round trip of a local share. After a successful write of a record into a
\* configuration whose settings container is empty, load_all returns exactly
\* that record, equal in all seven fields.
C1_RoundTrip ==
  (last.op = "write" /\ last.ok /\ last.before \in EmptyContainerTexts)
    => LoadAll(content) = <<last.rec>>

\* the closing brace that matches the opening brace at index open of text
\* (0 when there is none)
MatchingClose(text, open) ==
  LET closes == {j \in (open + 1)..Len(text) :
                   /\ text[j] = "}"
                   /\ CountChar(SubSeq(text, open, j), "{") = CountChar(SubSeq(text, open, j), "}")}
  IN IF closes = {} THEN 0 ELSE SetMin(closes)

\* the start of the line that holds index i of text
LineStart(text, i) ==
  LET nls == {j \in 1..(i - 1) : text[j] = "\n"}
  IN IF nls = {} THEN 1 ELSE SetMax(nls) + 1

\* the span of the local share entry named name: from the start of the line of
\* its quoted key to the ";" after its own closing brace (start = 0: no entry)
LocalEntrySpan(text, name) ==
  LET key == <<"\"">> \o name \o <<"\""," ","="," ","{">>
      k == Find(text, key)
      close == IF k = 0 THEN 0 ELSE MatchingClose(text, k + Len(key) - 1)
  IN IF k = 0 \/ close = 0 \/ close + 1 > Len(text) THEN [start |-> 0, end |-> 0]
     ELSE [start |-> LineStart(text, k), end |-> close + 1]

\* after is before with x inserted at some place, and nothing else changed
InsertedOnly(before, after, x) ==
  \E k \in 0..Len(before) :
    after = SubSeq(before, 1, k) \o x \o SubSeq(before, k + 1, Len(before))

\* after is before with the span replaced by x, and nothing else changed
ReplacedOnly(before, after, span, x) ==
  /\ span.start # 0
  /\ after = SubSeq(before, 1, span.start - 1) \o x \o SubSeq(before, span.end + 1, Len(before))

\* C2: isolation of local edits. A successful write only inserts the new entry (or
\* the synthesized section holding it) with its line end, a successful update only
\* replaces the lines of the old entry; every other byte of the file, line ends and
\* final newline included, is as before.
C2_LocalIsolation ==
  /\ (last.op = "write" /\ last.ok) =>
       \E eol \in {NL, CRLF} :
         \/ InsertedOnly(last.before, content, ShareConfigText(last.rec) \o eol)
         \/ InsertedOnly(last.before, content,
                         SambaSectionHead \o ShareConfigText(last.rec) \o SambaSectionTail \o eol)
  /\ (last.op = "update" /\ last.ok) =>
       ReplacedOnly(last.before, content, LocalEntrySpan(last.before, last.old),
                    ShareConfigText(last.rec))

\* the span of the fileSystems entry named name: from the first occurrence of its
\* key outside a comment to the ";" after its own closing brace (start = 0: no entry)
RemoteEntrySpan(text, name) ==
  LET key == <<"f","i","l","e","S","y","s","t","e","m","s",".","\"">> \o name \o <<"\"">>
      keys == {i \in 1..(Len(text) - Len(key) + 1) :
                 /\ SubSeq(text, i, i + Len(key) - 1) = key
                 /\ ~Contains(SubSeq(text, LineStart(text, i), i), <<"#">>)}
      k == SetMin(keys)
      open == IF keys = {} THEN 0 ELSE FindFrom(text, <<"{">>, k)
      close == IF open = 0 THEN 0 ELSE MatchingClose(text, open)
  IN IF keys = {} \/ close = 0 \/ close + 1 > Len(text) THEN [start |-> 0, end |-> 0]
     ELSE [start |-> k, end |-> close + 1]

\* C3: isolation of remote edits. A successful write only inserts the new entry; a
\* successful update with the name unchanged only replaces the span of the entry,
\* from its key to its own closing "};"; delete only removes that span and the
\* newlines after it.
C3_RemoteIsolation ==
  /\ (last.op = "rwrite" /\ last.ok) =>
       InsertedOnly(last.before, content, NewEntryText(last.rec))
  /\ (last.op = "rupdate" /\ last.ok) =>
       ReplacedOnly(last.before, content, RemoteEntrySpan(last.before, last.old),
                    ReplacementText(last.rec))
  /\ (last.op = "rdelete" /\ last.ok) =>
       LET span == RemoteEntrySpan(last.before, last.old)
       IN ReplacedOnly(last.before, content,
                       [start |-> span.start, end |-> SkipNewlines(last.before, span.end)], <<>>)

\* C4: uniqueness on rename. After a successful update(old_name, r) with another
\* name, load_all returns exactly one record named r.name and none named old_name.
C4_RenameUnique ==
  (last.op = "update" /\ last.ok /\ last.rec.name # last.old) =>
    LET shares == LoadAll(content)
    IN /\ Cardinality({i \in 1..Len(shares) : shares[i].name = last.rec.name}) = 1
       /\ ~\E i \in 1..Len(shares) : shares[i].name = last.old

(***************************************************************************)
(* Properties of mounting and unmounting                                   *)
(***************************************************************************)
MountShareReturned == call.fn = "mount_share" /\ mpc = "done"

UnmountShareReturned == call.fn = "unmount_share" /\ mpc = "done"

Invoked(cmd) == \E k \in 1..Len(effects) : effects[k].cmd = cmd

\* C5: credential cleanup. Whenever mount_share has returned, on every exit path
\* after the credentials file was created (a failure of the permission change, of
\* the spawn of mount, a non-zero exit of mount, or success), the credentials file
\* written for the call no longer exists.
C5_CredentialsRemoved ==
  (MountShareReturned /\ creds_path # <<>>) => creds_path \notin DOMAIN files

ValidationErrors ==
  {<<"Remote URL must start with '//' (e.g., //server/share)">>,
   <<"Remote URL must include server and share name (e.g., //server/share)">>,
   <<"Remote URL contains invalid characters">>,
   <<"Mount point must be an absolute path">>,
   <<"Mount point path contains invalid characters">>}

InvalidCall ==
  /\ call.fn = "mount_share"
  /\ \/ ValidateRemoteUrl(call.remote_url) # ""
     \/ ValidateMountPoint(call.mount_point) # ""

\* C6: validation boundary. A mount_share call whose remote url or mount point
\* fails its validation returns a validation error in its first step, and that step
\* asks nothing of the operating system: no mount command, no query of the mounts,
\* no directory created, no credentials file written.
C6_ValidationBoundary ==
  [][(InvalidCall /\ mpc = "validate") =>
       /\ mpc' = "done"
       /\ ~result'.ok /\ result'.err \in ValidationErrors
       /\ effects' = <<>>
       /\ UNCHANGED <<mounts, dirs, files, listing, output, creds_path>>]_vars

\* a call with a good url and a relative mount point has returned its error
C6_Witness ==
  /\ MountShareReturned
  /\ ValidateRemoteUrl(call.remote_url) = ""
  /\ result = Err(<<"Mount point must be an absolute path">>)
  /\ effects = <<>>

\* the segments of a remote address after its "//"
UrlSegments(url) == SplitChar(SubSeq(url, 3, Len(url)), "/")

\* "//", no shell character, a server and a share that are not empty
WellFormedUrl(url) ==
  /\ StartsWith(url, <<"/","/">>)
  /\ \A i \in 1..Len(url) : url[i] \notin {";", "&", "|", "backquote"}
  /\ Len(UrlSegments(url)) >= 2
  /\ UrlSegments(url)[1] # <<>>
  /\ UrlSegments(url)[2] # <<>>

\* C7: every remote address mount_share goes on with after its validation starts
\* with "//", holds none of ; & | and the backquote, and has a server and a share
\* that are not empty; an address without one of them is answered with a
\* validation error.
C7_AcceptedUrlWellFormed ==
  /\ (call.fn = "mount_share" /\ mpc \in {"check", "mkdir", "creds_write", "creds_chmod", "mount"})
       => WellFormedUrl(call.remote_url)
  /\ (MountShareReturned /\ ~WellFormedUrl(call.remote_url))
       => (~result.ok /\ result.err \in ValidationErrors)

\* list_cifs_mounts answered, and the mount point of the call is a target in its answer
Reported ==
  /\ listing.ok
  /\ \E i \in 1..Len(listing.shares) : PathEq(listing.shares[i].target, call.mount_point)

\* C8: mount idempotency guard. When the mount point is a target of the list of
\* cifs mounts read at the check, mount_share returns the error "already mounted"
\* and has not run the mount command, created the directory of the mount point or
\* written a credentials file.
C8_AlreadyMounted ==
  (call.fn = "mount_share" /\ Reported) =>
    /\ mpc = "done"
    /\ result = Err(<<"Mount point ", call.mount_point, " is already mounted">>)
    /\ ~Invoked("mount") /\ ~Invoked("create_dir_all") /\ ~Invoked("write")
    /\ creds_path = <<>>

\* a call for a mounted mount point, written with a trailing "/", and answered
\* through /proc/mounts, has returned
C8_Witness ==
  /\ MountShareReturned /\ Reported
  /\ Invoked("read /proc/mounts")
  /\ \A i \in 1..Len(listing.shares) : listing.shares[i].target # call.mount_point

\* C9: unmount_share runs umount if and only if the mount point is reported as
\* mounted; when it is not (also when findmnt and the read of /proc/mounts both
\* fail) it returns the error "not currently mounted" without running umount; when
\* umount exits non-zero the error returned is the classification of its stderr.
C9_UnmountGuard ==
  UnmountShareReturned =>
    /\ Invoked("umount") <=> Reported
    /\ ~Reported => result = Err(<<"Mount point ", call.mount_point, " is not currently mounted">>)
    /\ ~listing.ok => ~Invoked("umount")
    /\ output.status = "exit_nonzero" => result = Err(ParseUmountError(output.stderr))

\* both queries failed for a mount point that is mounted, and the call has returned
C9_Witness ==
  /\ UnmountShareReturned
  /\ ~listing.ok
  /\ \E i \in 1..Len(mounts) : mounts[i].fstype = Cifs /\ mounts[i].target = call.mount_point
  /\ ~result.ok

(***************************************************************************)
(* Properties of list_all_shares                                           *)
(***************************************************************************)
Listed == list_out.ok

ListNames(c) == {c[i].name : i \in 1..Len(c)}

DistinctNames(c) == \A i, j \in 1..Len(c) : c[i].name = c[j].name => i = j

\* each configured share is one entry, in the order of the configuration, mounted
\* iff a mounted share has its name as target
ConfiguredPart(c, m, r) ==
  /\ Len(r) >= Len(c)
  /\ \A i \in 1..Len(c) :
       /\ r[i].target = c[i].name
       /\ r[i].source = c[i].remote_path
       /\ r[i].is_mounted <=> \E j \in 1..Len(m) : m[j].target = c[i].name
       /\ Cardinality({k \in 1..Len(r) : r[k].target = c[i].name}) = 1

NoTargetTwice(r) == \A k1, k2 \in 1..Len(r) : r[k1].target = r[k2].target => k1 = k2

\* every mounted share whose target is no configured name is an entry after the
\* configured ones
EveryMountListed(c, m, r) ==
  \A j \in 1..Len(m) :
    m[j].target \notin ListNames(c) =>
      \E k \in (Len(c) + 1)..Len(r) : r[k] = m[j] /\ r[k].is_mounted

\* for every target of a mounted share that is no configured name, the first
\* mounted share of that target is an entry after the configured ones, and
\* these are the only entries after them
EveryTargetListed(c, m, r) ==
  /\ \A j \in 1..Len(m) :
       m[j].target \notin ListNames(c) =>
         \E k \in (Len(c) + 1)..Len(r) :
           /\ r[k] = m[SetMin({i \in 1..Len(m) : m[i].target = m[j].target})]
           /\ r[k].is_mounted
  /\ \A k \in (Len(c) + 1)..Len(r) :
       \E j \in 1..Len(m) : r[k] = m[j] /\ m[j].target \notin ListNames(c)

ErrorTable ==
  << [texts |-> {<<"p","e","r","m","i","s","s","i","o","n"," ","d","e","n","i","e","d">>,
                 <<"a","c","c","e","s","s"," ","d","e","n","i","e","d">>},
      category |-> "permission"],
     [texts |-> {<<"c","o","n","n","e","c","t","i","o","n"," ","r","e","f","u","s","e","d">>,
                 <<"c","o","u","l","d"," ","n","o","t"," ","r","e","s","o","l","v","e">>},
      category |-> "unreachable"],
     [texts |-> {<<"a","l","r","e","a","d","y"," ","m","o","u","n","t","e","d">>,
                 <<"b","u","s","y">>},
      category |-> "in use"],
     [texts |-> {<<"n","o"," ","s","u","c","h"," ","f","i","l","e"," ","o","r"," ",
                   "d","i","r","e","c","t","o","r","y">>},
      category |-> "not found"],
     [texts |-> {<<"i","n","v","a","l","i","d"," ","a","r","g","u","m","e","n","t">>},
      category |-> "bad options"],
     [texts |-> {<<"h","o","s","t"," ","i","s"," ","d","o","w","n">>},
      category |-> "network"],
     [texts |-> {<<"n","o","t"," ","m","o","u","n","t","e","d">>},
      category |-> "not mounted"] >>

\* the rows of the table a text matches, whatever its case
RowsMatching(table, text) ==
  {k \in 1..Len(table) : \E t \in table[k].texts : Contains(ToLowercase(text), t)}

\* the category of the first row a text matches, "none" when it matches no row
TableCategory(table, text) ==
  IF RowsMatching(table, text) = {} THEN "none"
  ELSE table[SetMin(RowsMatching(table, text))].category

\* the message of parse_mount_error for each category
MountMessage(category) ==
  CASE category = "permission" -> "Permission denied. Check your credentials or run with sudo."
    [] category = "unreachable" -> "Connection refused. Server may be offline or unreachable."
    [] category = "in use" -> "Mount point is already in use or mounted."
    [] category = "not found" -> "Server or share not found. Check the remote URL."
    [] category = "bad options" -> "Invalid mount options. Check your configuration."
    [] category = "network" -> "Host is unreachable. Check network connectivity."

\* the text without the blanks and line ends around it, in its own case
Stripped(text) ==
  LET keep == {i \in 1..Len(text) : text[i] \notin {" ", "\n", "\r", "\t"}}
  IN IF keep = {} THEN <<>> ELSE SubSeq(text, SetMin(keep), SetMax(keep))

MountErrorReturned == fn_in.fn = "parse_mount_error" /\ fn_out # <<>>

UmountErrorReturned == fn_in.fn = "parse_umount_error" /\ fn_out # <<>>

\* C11: mount error classification is a first-match table over the lower-cased
\* stderr, in the order permission, unreachable, in use, not found, bad options,
\* network: the earliest row a text matches gives the message, and a text matching
\* no row gives "Mount failed: " and the trimmed text in its own case.
C11_MountErrorTable ==
  MountErrorReturned =>
    LET category == TableCategory(SubSeq(ErrorTable, 1, 6), fn_in.arg)
    IN IF category = "none"
       THEN fn_out = <<"Mount failed: ", Stripped(fn_in.arg)>>
       ELSE fn_out = <<MountMessage(category)>>

\* a text in upper case of the first row and in lower case of the third has been
\* classified, and so has a text matching no row
C11_Witness ==
  /\ MountErrorReturned
  /\ RowsMatching(ErrorTable, fn_in.arg) = {1, 3}
  /\ fn_in.arg # ToLowercase(fn_in.arg)
  /\ fn_out = <<MountMessage("permission")>>

\* the category of a message of parse_umount_error
UmountCategory(message) ==
  CASE message = <<"The specified path is not currently mounted.">> -> "not mounted"
    [] message = <<"Mount point is busy. Close any programs using files from this share.">> -> "in use"
    [] message = <<"Permission denied. You may need to run with sudo.">> -> "permission"
    [] OTHER -> "none"

\* C12: unmount failure text is classified by the same ordered table as mount
\* failure text, with the row "not mounted" last: for every stderr text the
\* category of the message returned is the category of the first row it matches.
C12_UmountSameTable ==
  UmountErrorReturned => UmountCategory(fn_out) = TableCategory(ErrorTable, fn_in.arg)

(***************************************************************************)
(* Properties of the credentials                                           *)
(***************************************************************************)
\* the credentials file of the call exists and holds the username and password lines
CredentialsStored ==
  /\ call.fn = "mount_share"
  /\ creds_path \in DOMAIN files
  /\ files[creds_path].content = CredsContent(call.username, call.password)

\* C13: in every state of a mount_share call in which the credentials file exists
\* and holds the username and password lines, its permission bits are 0600: the
\* file never holds the password while the group or others can read it.
C13_OwnerOnly == CredentialsStored => files[creds_path].mode = "0600"

\* the arguments of the commands the call has run
CommandArgs(cmd) ==
  {effects[k].args : k \in {i \in 1..Len(effects) : effects[i].cmd = cmd}}

\* C14: the password never reaches the arguments of the mount command. The
\* arguments are those built from the url, the mount point, the options, the
\* process id and a time stamp alone, so two calls that differ only in the password
\* run mount with the same arguments; the password is part of no argument of
\* anything the call runs or asks of the file system.
C14_PasswordNotInArgs ==
  call.fn = "mount_share" =>
    /\ \A args \in CommandArgs("mount") :
         \E timestamp \in 0..MaxTime :
           args = MountArgs(call.remote_url, call.mount_point,
                            CredsPathOf(ProcessId, timestamp), call.options)
    /\ \A k \in 1..Len(effects) : \A i \in 1..Len(effects[k].args) :
         ~Contains(effects[k].args[i], call.password)

\* mount has run and succeeded for a call with a password
C14_Witness ==
  /\ MountShareReturned
  /\ result.ok
  /\ CommandArgs("mount") # {}
  /\ call.password # <<>>
  /\ creds_path \notin DOMAIN files

(***************************************************************************)
(* Properties of the containers                                            *)
(***************************************************************************)
\* no two records of the list have the same name
UniqueNames(shares) ==
  \A i, j \in 1..Len(shares) : shares[i].name = shares[j].name => i = j

\* C15: name uniqueness is an invariant of the container: from a configuration in
\* which no two share entries have the same key, after a successful write or
\* update load_all never returns two records with the same name.
C15_NamesUnique ==
  (last.op \in {"write", "update"} /\ last.ok /\ UniqueNames(LoadAll(last.before)))
    => UniqueNames(LoadAll(content))

\* the configurations without a services.samba settings container
NoContainerTexts ==
  {Join(l, NL) : l \in {LinesNone, LinesNoSettings, LinesOneLine}}
  \cup {Join(l, NL) \o NL : l \in {LinesNone, LinesNoSettings, LinesOneLine}}

\* the lines that are exactly "}"
ClosingLines(lines) == {i \in 1..Len(lines) : lines[i] = <<"}">>}

\* new is old with the lines of block put in before line idx of old
BlockInserted(old, new, idx, block) ==
  /\ Len(new) = Len(old) + Len(block)
  /\ SubSeq(new, 1, idx - 1) = SubSeq(old, 1, idx - 1)
  /\ SubSeq(new, idx, idx + Len(block) - 1) = block
  /\ SubSeq(new, idx + Len(block), Len(new)) = SubSeq(old, idx, Len(old))

\* C16: section synthesis. When the configuration has no services.samba settings
\* container, write puts the services.samba template with the new entry right
\* before the last line that is exactly "}", leaves every line that was there
\* unchanged, and load_all then returns exactly the written record; when no line is
\* exactly "}" it returns an error and writes nothing.
C16_SectionSynthesis ==
  (last.op = "write" /\ last.before \in NoContainerTexts) =>
    LET old == ReadLines(last.before) IN
    IF ClosingLines(old) = {}
    THEN ~last.ok /\ content = last.before
    ELSE /\ ~last.ok => content = last.before
         /\ last.ok =>
              /\ BlockInserted(old, ReadLines(content), SetMax(ClosingLines(old)),
                               ReadLines(SambaSectionHead \o ShareConfigText(last.rec)
                                         \o SambaSectionTail))
              /\ LoadAll(content) = <<last.rec>>

(***************************************************************************)
(* Properties of load_all                                                  *)
(***************************************************************************)
LoadAllReturned == fn_in.fn = "load_all" /\ fn_out # <<>>

\* the name and the path of each record, in order
NamesAndPaths(shares) == [i \in 1..Len(shares) |-> <<shares[i].name, shares[i].path>>]

\* C17: load_all returns one record for each entry of the settings container, in
\* source order, whether the entries stand over several lines or each on one line:
\* the two entries of the several-line layout and the three entries of the one-line
\* layout come back with their names and paths, in order.
C17_OneRecordPerEntry ==
  LoadAllReturned =>
    /\ fn_in.arg = Join(LinesMulti, NL) =>
         NamesAndPaths(fn_out.shares) = << <<<<"a">>, <<"/","p">>>>, <<<<"b">>, <<"/","q">>>> >>
    /\ fn_in.arg = Join(LinesSingle, NL) =>
         NamesAndPaths(fn_out.shares)
           = << <<<<"a">>, <<"/","p">>>>, <<<<"b">>, <<"/","q">>>>, <<<<"c">>, <<"/","r">>>> >>

\* C19: container lookup tolerance. load_all finds the same share entries whether
\* the settings container is declared as nested blocks, with a dotted key or with
\* single-segment keys, and a comment line holding the text "services.samba = {"
\* does not change the entries found.
C19_LookupTolerance ==
  LoadAllReturned =>
    \A l \in {ContainerLayouts[k] : k \in DOMAIN ContainerLayouts} :
      fn_in.arg = Join(l, NL) => fn_out.shares = LoadAll(Join(LinesMulti, NL))

\* the configurations whose only share is "a" and which hold the key "z" elsewhere
StrayKeyTexts ==
  {Join(LinesStrayKey[k], NL) : k \in DOMAIN LinesStrayKey}
  \cup {Join(LinesStrayKey[k], NL) \o NL : k \in DOMAIN LinesStrayKey}

\* C18: replace-in-place matches only a direct child of the settings container.
\* An update of a name that is the key of a block nested in another share, or of a
\* block outside the services.samba settings container, but of no share, returns
\* "not found" and changes nothing.
C18_DirectChildOnly ==
  (last.op = "update" /\ last.before \in StrayKeyTexts /\ last.old # <<"a">>)
    => (~last.ok /\ content = last.before)

(***************************************************************************)
(* Properties of list_cifs_mounts                                          *)
(***************************************************************************)
ListCifsMountsReturned == fn_in.fn = "list_cifs_mounts" /\ fn_out # <<>>

\* the fields of a line: the runs of characters that are not whitespace, each
\* from a character that begins the line or follows whitespace to the last
\* character before the next whitespace or the end of the line
FieldsOf(line) ==
  LET first == {i \in 1..Len(line) : ~IsWs(line[i]) /\ (i = 1 \/ IsWs(line[i - 1]))}
      stop(i) == SetMin({j \in i..Len(line) : j = Len(line) \/ IsWs(line[j + 1])})
      nth(k) == CHOOSE i \in first : Cardinality({j \in first : j <= i}) = k
  IN [k \in 1..Cardinality(first) |-> SubSeq(line, nth(k), stop(nth(k)))]

\* the lines of /proc/mounts of at least four fields whose third field is cifs
CifsLines(text) ==
  SelectSeq(ReadLines(text), LAMBDA l : Len(FieldsOf(l)) >= 4 /\ FieldsOf(l)[3] = Cifs)

ReadsProcMounts == \E i \in 1..Len(fn_out.effects) : fn_out.effects[i].cmd = "read /proc/mounts"

\* C20: list_cifs_mounts returns the result of findmnt whenever findmnt runs,
\* exits with zero and prints JSON that parses, also when that result is empty,
\* and reads /proc/mounts only when findmnt is not spawned, exits with another
\* status or prints what does not parse; then exactly the lines of at least four
\* fields whose third field is cifs are returned, in the order of the file, with
\* the first four fields; every entry returned has is_mounted = true.
C20_ListingStrategy ==
  ListCifsMountsReturned =>
    LET arg == fn_in.arg
        shares == fn_out.listing.shares
        cifs == SelectSeq(arg.table, LAMBDA row : row.fstype = Cifs)
        kept == CifsLines(arg.text)
    IN /\ \A i \in 1..Len(shares) : shares[i].is_mounted
       /\ arg.findmnt = "ok" =>
            /\ fn_out.listing.ok
            /\ ~ReadsProcMounts
            /\ Len(shares) = Len(cifs)
            /\ \A i \in 1..Len(cifs) :
                 /\ shares[i].source = cifs[i].source
                 /\ shares[i].target = cifs[i].target
                 /\ shares[i].fstype = cifs[i].fstype
                 /\ shares[i].options = cifs[i].options
       /\ arg.findmnt # "ok" =>
            /\ ReadsProcMounts
            /\ arg.proc = "ok" =>
                 /\ fn_out.listing.ok
                 /\ Len(shares) = Len(kept)
                 /\ \A i \in 1..Len(kept) :
                      /\ shares[i].source = FieldsOf(kept[i])[1]
                      /\ shares[i].target = FieldsOf(kept[i])[2]
                      /\ shares[i].fstype = Cifs
                      /\ shares[i].options = FieldsOf(kept[i])[4]

\* findmnt exits with status 1 and /proc/mounts holds a cifs line of three fields
\* before the cifs line whose fields a tab and two blanks separate: that one
\* share is returned
C20_Witness ==
  /\ ListCifsMountsReturned
  /\ fn_in.arg.findmnt = "exit status 1"
  /\ fn_in.arg.proc = "ok"
  /\ Len(ReadLines(fn_in.arg.text)) = 2
  /\ ReadLines(fn_in.arg.text)[1] = <<"/","/","h","/","s"," ","/","m"," ","c","i","f","s">>
  /\ Len(fn_out.listing.shares) = 1
  /\ fn_out.listing.shares[1].target = <<"/","k">>
  /\ fn_out.listing.shares[1].options = <<"r","w",",","x">>

(***************************************************************************)
(* Defaults of load_all                                                    *)
(***************************************************************************)
\* the record the properties of c describe: browsable unless a browseable
\* property says otherwise, a boolean true just when its value is yes, a string
\* property without its quotes, the empty string when it is missing
RecordOf(c) ==
  LET Unquoted(v) == IF v = <<>> THEN <<>> ELSE SubSeq(v, 2, Len(v) - 1)
  IN [name |-> <<"a">>,
      path |-> Unquoted(c.path),
      browsable |-> c.browseable \in {<<>>, Yes},
      read_only |-> c.read_only = Yes,
      guest_ok |-> c.guest_ok = <<"\"","y","e","s","\"">>,
      force_user |-> Unquoted(c.force_user),
      force_group |-> <<>>]

\* C22: for every share entry of the settings container load_all succeeds and
\* returns the record with browsable = true when browseable is missing, read_only
\* and guest_ok false when missing, path, force_user and force_group empty when
\* missing, a boolean true iff its value is yes, and unknown properties ignored.
C22_ExtractionDefaults ==
  LoadAllReturned =>
    \A c \in PropertyChoices, oneline \in BOOLEAN :
      fn_in.arg = EntryText(c, oneline) =>
        (fn_out.ok /\ fn_out.shares = <<RecordOf(c)>>)

(***************************************************************************)
(* The rendering of a share                                                *)
(***************************************************************************)
\* the lines of an entry, without their indentation: the quoted name and = {,
\* then path, browseable, "read only", "guest ok", "force user", "force group",
\* the booleans as yes or no, the strings in double quotes, then };
RenderedLines(r) ==
  LET Quoted(v) == <<"\"">> \o v \o <<"\"">>
      Token(b) == IF b THEN <<"y","e","s">> ELSE <<"n","o">>
      Property(k, v) == k \o <<" ","="," ">> \o v \o <<";">>
  IN << Quoted(r.name) \o <<" ","="," ","{">>,
        Property(<<"p","a","t","h">>, Quoted(r.path)),
        Property(<<"b","r","o","w","s","e","a","b","l","e">>, Token(r.browsable)),
        Property(Quoted(<<"r","e","a","d"," ","o","n","l","y">>), Token(r.read_only)),
        Property(Quoted(<<"g","u","e","s","t"," ","o","k">>), Token(r.guest_ok)),
        Property(Quoted(<<"f","o","r","c","e"," ","u","s","e","r">>), Quoted(r.force_user)),
        Property(Quoted(<<"f","o","r","c","e"," ","g","r","o","u","p">>), Quoted(r.force_group)),
        <<"}",";">> >>

\* the lines of the stored text from line i on are the entry of r
RenderedAt(i, r) ==
  LET lines == ReadLines(content)
  IN /\ i + 7 <= Len(lines)
     /\ \A k \in 1..8 : Trim(lines[i + k - 1]) = RenderedLines(r)[k]

\* C23: write and update both render a record as the quoted name followed by = {,
\* then path, browseable, "read only", "guest ok", "force user", "force group" in
\* that order, each boolean as yes or no, the name and every string value in
\* double quotes, closed by };: the text stored by a successful write or update
\* holds these eight lines of its record, the same for both operations.
C23_FixedRendering ==
  (last.ok /\ last.op \in {"write", "update"}) =>
    \E i \in 1..Len(ReadLines(content)) : RenderedAt(i, last.rec)

\* update has replaced an entry by a record that is not browsable and allows guests
C23_Witness ==
  /\ last.ok /\ last.op = "update"
  /\ ~last.rec.browsable /\ last.rec.guest_ok
  /\ \E i \in 1..Len(ReadLines(content)) : RenderedAt(i, last.rec)

(***************************************************************************)
(* Edits that fail                                                         *)
(***************************************************************************)
\* a step in which write or update returns: every edit but the delete half of a
\* rename that goes on to insert
EditReturns == (nops' # nops \/ pend # <<>>) /\ pend' = <<>>

\* the text stored when the returning call began: the text before the delete for
\* the insert half of a rename
TextAtCall == IF pend # <<>> THEN pend[1].start ELSE content

\* C25: whenever write or update of either kind returns an error, the stored
\* configuration text is exactly the text stored before the call; a remote
\* rename that fails in its insert step leaves the old entry in place.
C25_FailureAtomic ==
  [][(EditReturns /\ ~last'.ok) => content' = TextAtCall]_vars

(***************************************************************************)
(* What load_all returns, update replaces                                  *)
(***************************************************************************)
\* the lines of the entry named name: from the first line that begins with the key,
\* quoted or not, and opens a block, to the line on which that block is closed
EntryLineSpan(lines, name) ==
  LET IsKey(l) == \/ StartsWith(Trim(l), <<"\"">> \o name \o <<"\""," ","="," ","{">>)
                  \/ StartsWith(Trim(l), name \o <<" ","="," ","{">>)
      keys == {i \in 1..Len(lines) : IsKey(lines[i])}
      first == SetMin(keys)
      Open(i, j) == CountChar(Join(SubSeq(lines, i, j), NL), "{")
                    - CountChar(Join(SubSeq(lines, i, j), NL), "}")
      closes == {j \in first..Len(lines) : Open(first, j) = 0}
  IN IF keys = {} \/ closes = {} THEN [start |-> 0, end |-> 0]
     ELSE [start |-> first, end |-> SetMin(closes)]

\* update was asked to replace a share that load_all returns from the text, and
\* the file could be opened and written
UpdateOfLoaded ==
  /\ last.op = "update"
  /\ last.err \notin {"Failed to open", "Failed to write to"}
  /\ \E i \in 1..Len(LoadAll(last.before)) : LoadAll(last.before)[i].name = last.old

\* C26: for every record load_all returns from a text, update(record.name, r)
\* succeeds and replaces exactly the lines of that entry, from its key to its own
\* closing };, also when the key is an identifier without quotes or the entry
\* stands on one line.
C26_ReaderWriterAgree ==
  UpdateOfLoaded =>
    LET lines == ReadLines(last.before)
        span == EntryLineSpan(lines, last.old)
    IN /\ last.ok
       /\ span.start # 0
       /\ ReadLines(content) = SubSeq(lines, 1, span.start - 1)
                                \o ReadLines(ShareConfigText(last.rec))
                                \o SubSeq(lines, span.end + 1, Len(lines))

(***************************************************************************)
(* One services.samba block                                                *)
(***************************************************************************)
\* the places of text at which p occurs
Occurrences(text, p) == {i \in 1..(Len(text) - Len(p) + 1) : SubSeq(text, i, i + Len(p) - 1) = p}

\* services.samba = {
SambaBlockKey == <<"s","e","r","v","i","c","e","s",".","s","a","m","b","a"," ","="," ","{">>

\* the brace that closes the brace at open, the braces inside double-quoted
\* strings not counted (0: none)
BlockClose(text, open) ==
  LET Structural(j, c) == text[j] = c /\ CountChar(SubSeq(text, 1, j), "\"") % 2 = 0
      Depth(j) == Cardinality({i \in open..j : Structural(i, "{")})
                  - Cardinality({i \in open..j : Structural(i, "}")})
      closes == {j \in (open + 1)..Len(text) : Structural(j, "}") /\ Depth(j) = 0}
  IN IF closes = {} THEN 0 ELSE SetMin(closes)

\* the entry of r stands in text between the braces of the settings container of
\* the first services.samba block
InSettingsOfSamba(text, r) ==
  LET samba == Find(text, SambaBlockKey)
      samba_close == BlockClose(text, samba + Len(SambaBlockKey) - 1)
      key == <<"s","e","t","t","i","n","g","s"," ","="," ","{">>
      settings == FindFrom(text, key, samba)
      settings_close == BlockClose(text, settings + Len(key) - 1)
  IN /\ samba # 0 /\ settings # 0 /\ settings < samba_close
     /\ \E k \in Occurrences(text, ShareConfigText(r)) :
          settings < k /\ k + Len(ShareConfigText(r)) - 1 < settings_close

\* C27: write never creates a second services.samba definition: when the text
\* holds a services.samba = { block, with or without a settings container in it,
\* the text after a successful write holds exactly one such block and the new
\* entry stands inside the settings container of that block.
C27_OneSambaBlock ==
  (last.op = "write" /\ last.ok /\ Occurrences(last.before, SambaBlockKey) # {}) =>
    /\ Cardinality(Occurrences(content, SambaBlockKey)) = 1
    /\ InSettingsOfSamba(content, last.rec)

(***************************************************************************)
(* The two views of what is mounted                                        *)
(***************************************************************************)
\* C28: for every configured record c and every list of live mounts, the
\* is_mounted flag list_all_shares reports for c equals is_mounted(c.name), also
\* when the configured name and the live target differ only by a trailing slash.
C28_ViewsAgree ==
  list_out.ok =>
    \A i \in 1..Len(list_in.configured) :
      list_out.shares[i].is_mounted
        = IsMounted([ok |-> TRUE, shares |-> list_in.mounted], list_in.configured[i].name)

(***************************************************************************)
(* Properties of write_with_sudo                                           *)
(***************************************************************************)
\* the commands a call has run, the removals of the temporary file left out
Strategies(es) == SelectSeq(es, LAMBDA e : e.cmd # "remove_file")

\* the strategies in the order they are to be tried: the direct write, the
\* temporary copy the helpers need, then the four helpers
StrategyOrder ==
  <<"write", "write", "/run/wrappers/bin/pkexec", "run0", "pkexec", "sudo">>

\* the helper that has just run is a pkexec and printed a dismissal or a refusal
Dismissed(cmd, out) ==
  /\ cmd \in {"/run/wrappers/bin/pkexec", "pkexec"}
  /\ out.status = "exit_nonzero"
  /\ \/ Contains(out.stderr, <<"d","i","s","m","i","s","s","e","d">>)
     \/ Contains(out.stderr, <<"N","o","t"," ","a","u","t","h","o","r","i","z","e","d">>)

\* C29: write_with_sudo tries the direct write, /run/wrappers/bin/pkexec, run0,
\* pkexec and sudo -n strictly in that order; it returns Ok at the first strategy
\* that succeeds and runs no later one; a pkexec that fails with a dismissal or a
\* refusal in its standard error makes it return the cancellation at once; only
\* when every strategy has failed does it return the privilege error.
C29_StrategyOrder ==
  [][LET tried == Strategies(effects')
         helper == mpc \in {"/run/wrappers/bin/pkexec", "run0", "pkexec", "sudo"}
     IN /\ Len(tried) <= Len(StrategyOrder)
        /\ \A i \in 1..Len(tried) : tried[i].cmd = StrategyOrder[i]
        /\ (Len(tried) >= 1) => tried[1].args = <<call'.path>>
        /\ (Len(tried) = 6) => tried[6].args[1] = <<"-","n">>
        /\ (mpc = "done" /\ mpc' = "done") => effects' = effects
        /\ (mpc = "direct" /\ content' = call.content /\ mpc' = "done") => result' = Ok
        /\ (helper /\ output'.status = "exit_zero") => (mpc' = "done" /\ result' = Ok)
        /\ (helper /\ Dismissed(mpc, output')) =>
             (mpc' = "done" /\ result' = Err(<<"Authorization cancelled by user">>))
        /\ (mpc' = "done" /\ result'.ok) =>
             (Len(tried) = 1 \/ (Len(tried) >= 3 /\ output'.status = "exit_zero"))
        /\ (mpc' = "done" /\ result' = Err(<<"Failed to write file with elevated privileges.">>)) =>
             (Len(tried) = 6 /\ output'.status # "exit_zero")
    ]_vars

\* the call has returned the cancellation after /run/wrappers/bin/pkexec and run0
\* failed and pkexec was dismissed; sudo was not run
C29_Witness ==
  /\ mpc = "done"
  /\ result = Err(<<"Authorization cancelled by user">>)
  /\ Len(Strategies(effects)) = 5
  /\ Strategies(effects)[5].cmd = "pkexec"

\* a helper has run, so the temporary copy had been written
HelperHasRun ==
  \E i \in 1..Len(effects) : effects[i].cmd \in {"/run/wrappers/bin/pkexec", "run0", "pkexec", "sudo"}

\* C30: on every return of write_with_sudo after the temporary copy was written
\* (a helper succeeded, the user cancelled, or every helper failed) the temporary
\* file is gone, and when the direct write succeeds the call never writes it.
C30_NoTempLeft ==
  (call.fn = "write_with_sudo" /\ mpc = "done") =>
    /\ HelperHasRun => TempPath \notin DOMAIN files
    /\ (result.ok /\ ~HelperHasRun) =>
         \A i \in 1..Len(effects) : \A k \in 1..Len(effects[i].args) : effects[i].args[k] # TempPath

\* every helper failed and the call returned the privilege error: the temporary
\* file was written and is gone
C30_Witness ==
  /\ call.fn = "write_with_sudo" /\ mpc = "done"
  /\ result = Err(<<"Failed to write file with elevated privileges.">>)
  /\ \E i \in 1..Len(effects) : effects[i] = Effect("write", <<TempPath>>)
  /\ TempPath \notin DOMAIN files

(***************************************************************************)
(* The credentials files of concurrent mount_share calls                   *)
(***************************************************************************)
\* thread t has formed the path of its credentials file
HasPath(t) == threads[t].pc # "new"

\* thread t is between the creation of its credentials file and the end of its
\* mount command
HoldsFile(t) == threads[t].pc \in {"chmod", "mount"}

\* C24: any two mount_share attempts of one process, one after the other or at the
\* same time on different threads, use distinct credentials file paths, so the
\* file of an attempt that is between its creation and the end of its mount
\* command is there with that attempt's credentials, and its mount command
\* reads them.
C24_NoCollision ==
  /\ \A t, u \in 1..MaxThreads :
       (t # u /\ HasPath(t) /\ HasPath(u)) => threads[t].path # threads[u].path
  /\ \A t \in 1..MaxThreads :
       HoldsFile(t) => /\ threads[t].path \in DOMAIN files
                       /\ files[threads[t].path].content = ThreadCredentials(t)
  /\ \A t \in 1..MaxThreads :
       threads[t].read # <<>> =>
         threads[t].read = <<[found |-> TRUE, content |-> ThreadCredentials(t)]>>

(***************************************************************************)
(* What the remote load_all extracts                                       *)
(***************************************************************************)
RemoteLoadAllReturned == fn_in.fn = "remote_load_all" /\ fn_out # <<>>

\* the text between the quotes of a string of the tree
Unquoted(text) == SubSeq(text, 2, Len(text) - 1)

\* the values the entries named key give, in the order of the entries
ValuesOf(node, key) ==
  LET at == {i \in 1..Len(node.value.entries) : node.value.entries[i].key = key}
  IN [i \in 1..Cardinality(at) |->
        node.value.entries[CHOOSE j \in at : Cardinality({k \in at : k <= j}) = i]]

\* a fileSystems."<mount point>" entry whose fsType is cifs
IsCifsEntry(node) ==
  /\ Len(node.path) = 2 /\ node.path[1].text = KwFileSystems
  /\ \E v \in {ValuesOf(node, "fsType")} : v # <<>> /\ Unquoted(v[1].text) = Cifs

\* the option strings of an entry, unquoted
OptionStrings(node) ==
  LET v == ValuesOf(node, "options")
  IN IF v = <<>> THEN <<>> ELSE [i \in 1..Len(v[1].items) |-> Unquoted(v[1].items[i].text)]

\* what follows prefix in the first option that starts with it, default if none does
OptionValue(node, prefix, default) ==
  LET os == OptionStrings(node)
  IN IF \E i \in 1..Len(os) : StartsWith(os[i], prefix)
     THEN LET i == CHOOSE i \in 1..Len(os) :
                     /\ StartsWith(os[i], prefix)
                     /\ \A j \in 1..(i - 1) : ~StartsWith(os[j], prefix)
          IN SubSeq(os[i], Len(prefix) + 1, Len(os[i]))
     ELSE default

\* C21: when the configuration file is read, the remote load_all succeeds and
\* returns one record for each fileSystems."<mount point>" entry whose fsType is
\* exactly cifs, in order, and none for any other entry; the record of an entry
\* has its mount point as name and takes credentials, uid and gid from the first
\* option starting with credentials=, uid=, gid=, or the empty string, 1000 and
\* 100 when there is no such option.
C21_RemoteExtraction ==
  (RemoteLoadAllReturned /\ fn_in.arg.read = "ok") =>
    LET nodes == fn_in.arg.nodes
        at == {i \in 1..Len(nodes) : IsCifsEntry(nodes[i])}
    IN /\ fn_out.ok
       /\ Len(fn_out.shares) = Cardinality(at)
       /\ \A i \in at :
            LET share == fn_out.shares[Cardinality({k \in at : k <= i})]
            IN /\ share.name = Unquoted(nodes[i].path[2].text)
               /\ share.fs_type = Cifs
               /\ share.option_credentials = OptionValue(nodes[i], KwCredentialsEq, <<>>)
               /\ share.force_user = OptionValue(nodes[i], KwUidEq, <<"1","0","0","0">>)
               /\ share.force_group = OptionValue(nodes[i], KwGidEq, <<"1","0","0">>)

\* load_all has returned from a tree of an entry that is not cifs followed by a
\* cifs entry with a uid option, and from one whose options hold two credentials
C21_Witness ==
  /\ RemoteLoadAllReturned
  /\ fn_in.arg.read = "ok"
  /\ \/ /\ Len(fn_in.arg.nodes) = 2
        /\ ~IsCifsEntry(fn_in.arg.nodes[1])
        /\ IsCifsEntry(fn_in.arg.nodes[2])
        /\ Len(fn_out.shares) = 1
        /\ fn_out.shares[1].force_user = <<"7">>
        /\ fn_out.shares[1].force_group = <<"1","0","0">>
     \/ /\ Len(fn_in.arg.nodes) = 1
        /\ Len(fn_out.shares) = 1
        /\ fn_out.shares[1].option_credentials = <<"/","c">>
        /\ Len(OptionStrings(fn_in.arg.nodes[1])) = 2
        /\ OptionStrings(fn_in.arg.nodes[1])[2] = KwCredentialsEq \o <<"/","d">>

====
